---- MODULE Spec2Model ----
(***************************************************************************)
(* Live telemetry reconciliation engine of the simulator detail page       *)
(* (src/src/features/simulators/SimulatorDetailPage.tsx): the per-connector *)
(* sample series (meterTimelines), the complete-history buffer             *)
(* (telemetryHistory), the session runtimes (sessionsByConnector), the      *)
(* frozen set (frozenConnectorsRef) and the pure helpers normalizeSample,   *)
(* appendSample and trimWindow.                                             *)
(*                                                                         *)
(* Conventions of the translation                                          *)
(*  - A timestamp is an integer number of milliseconds.  ISO strings and    *)
(*    Date.parse are the same instant, so isoTimestamp, startedAt,          *)
(*    completedAt, updatedAt and lastSampleAt are kept as milliseconds.      *)
(*  - undefined / null of a number is Undef, of a transaction id NoTx, of   *)
(*    a sample NoSample, of a runtime NoRuntime.  `a ?? b` is Coalesce.      *)
(*  - energyKwh is kept in Wh (energyKwh * 1000): toFixed(3) of valueWh /   *)
(*    1000 is exact on an integer register.                                 *)
(*  - powerKw, currentA, voltageV and intervalSeconds of a sample and idTag, *)
(*    pricePerKwh, maxKw, cmsSessionId of a runtime are display fields that  *)
(*    every writer passes through; they are not part of the state here.      *)
(*    transactionKey and cmsTransactionKey of a runtime are written by the   *)
(*    same expression as transactionId at every site and are one field.      *)
(*  - One handler call is one step; it ends with the render the handler      *)
(*    causes and the effects of that render.  sessionsRef.current is the     *)
(*    committed sessionsByConnector (effect at lines 538-540).               *)
(*  - Updaters passed to a state setter run when React processes the queue.  *)
(*    React may evaluate the first updater a handler queues at the call (the *)
(*    component has no update pending) or leave it to the next render; every *)
(*    later updater of the same handler runs at the render unless the first  *)
(*    one returned the state it was given.  A handler that reads a variable  *)
(*    an updater assigns (recordedSample, normalizedMeterStart,              *)
(*    baselineSample, finalizedSample, snapshotHistory, historyBatches)      *)
(*    therefore sees it assigned or not: `eager` is that choice, made anew   *)
(*    at every step.  At the render the hooks run in declaration order,      *)
(*    meterTimelines (line 381) before sessionsByConnector (line 384).       *)
(*  - The station detail (data) is loaded whenever a push frame is handled:  *)
(*    the channel is enabled only with data.charger_id (lines 2796-2801).    *)
(***************************************************************************)
EXTENDS Integers, Sequences, FiniteSets, TLC

VARIABLES
    meterTimelines,        \* connector -> [transactionId, samples]   (useState, line 381)
    telemetryHistory,      \* connector -> samples                    (useState, line 382)
    sessionsByConnector,   \* connector -> SessionRuntime | NoRuntime (useState, line 384)
    frozenConnectors,      \* frozenConnectorsRef.current             (useRef, line 390)
    telemetryHydrated,     \* useState, line 383
    telemetrySnapshot,     \* data.telemetrySnapshot of the cached station detail
    pendingHistoryFetches, \* pendingHistoryFetchesRef.current        (useRef, line 394)
    timelineEvents,        \* the timeline log, newest first          (useState, line 378)
    timelineKeys,          \* timelineKeysRef.current                 (useRef, line 387)
    telemetryThrottle,     \* telemetryThrottleRef.current            (useRef, line 388)
    resetFlow,             \* the reset in progress, NoReset if none  (useState, line 377)
    last,                  \* the latest observation: kind, connector, event time, payload
    events,                \* number of frames and rows handled so far
    completedSince,        \* connectors whose runtime reached completed, no session.started since
    backfillRequests,      \* <<connector, transaction>> -> back-fill reads issued so far
    fnIn,                  \* argument of the pure function under check
    fnOut,                 \* its result
    activeIds,             \* station keys with a bridge (SimulatorChannelProvider useState)
    listeners,             \* number of listeners of the station in listenersRef
    canConnect,            \* the provider's canConnect
    accessToken,           \* tokens.access
    bridge,                \* props the bridge's activation effect last ran with
    sockets,               \* every WebSocket created so far, in creation order
    socketRef,             \* socketRef.current: index into sockets, 0 for null
    reconnectTimer,        \* reconnectTimer.current and the delay of its timeout
    manualCloseRef,        \* manualCloseRef.current
    reconnectDelayRef,     \* reconnectDelayRef.current
    unauthorizedPending,   \* sockets whose onUnauthorized promise is not settled
    failures,              \* reconnect delays scheduled since the last open
    status,                \* the hook's status state (useState, line 52)
    lastMessage,           \* the hook's lastMessage state (useState, line 53)
    heartbeatTimerRef,     \* whether heartbeatTimerRef.current holds an interval
    channelEvent,          \* the latest event of the channel
    tokens,                \* TenantApiClient.tokens (part_006, line 95)
    call,                  \* the request() call in progress and how it settled
    fetches,               \* fetch() calls made by the call in progress
    loggedOut              \* whether onLogout was called by the latest call

engineVars == <<meterTimelines, telemetryHistory, sessionsByConnector, frozenConnectors,
                telemetryHydrated, telemetrySnapshot, pendingHistoryFetches,
                timelineEvents, timelineKeys, telemetryThrottle, resetFlow>>

fnVars == <<fnIn, fnOut>>

chanVars == <<activeIds, listeners, canConnect, accessToken, bridge, sockets, socketRef,
              reconnectTimer, manualCloseRef, reconnectDelayRef, unauthorizedPending,
              failures, status, lastMessage, heartbeatTimerRef, channelEvent>>

apiVars == <<tokens, call, fetches, loggedOut>>

vars == <<engineVars, last, events, completedSince, backfillRequests, fnVars, chanVars,
          apiVars>>

----------------------------------------------------------------------------
(* Program constants *)

MAX_POINTS == 720
TELEMETRY_WINDOW_MS == 600000
TELEMETRY_HISTORY_LIMIT == 2000
TIMELINE_EVENT_LIMIT == 40
TELEMETRY_EVENT_COOLDOWN_MS == 2000

(* Bounds of the model *)

MaxEvents == 3          \* frames and REST rows handled in one behaviour
TickMs == 400000        \* spacing of the timestamps the observations carry
MaxBatch == 2           \* rows in one REST response

Connectors == {1}
Times == {TickMs, 2 * TickMs, 3 * TickMs}
TxIds == {"TX1", "TX2"}

Undef == 0 - 1
NoTx == ""

Coalesce(a, b) == IF a # Undef THEN a ELSE b
CoalesceTx(a, b) == IF a # NoTx THEN a ELSE b

----------------------------------------------------------------------------
(* Canonical samples *)

NoSample == [timestamp |-> Undef, valueWh |-> Undef, energyWh |-> Undef,
             deltaWh |-> Undef, transactionId |-> NoTx]

RawSampleInput(ts, valueWh, deltaWh, energyWh, tx) ==
    [timestamp |-> ts, valueWh |-> valueWh, deltaWh |-> deltaWh,
     energyWh |-> energyWh, transactionId |-> tx]

Last(seq) == IF Len(seq) = 0 THEN NoSample ELSE seq[Len(seq)]

normalizeSample(input, previous) ==
    LET rawWh == input.valueWh
        valueWh == IF rawWh # Undef
                   THEN IF previous # NoSample /\ rawWh < previous.valueWh
                        THEN previous.valueWh
                        ELSE rawWh
                   ELSE IF previous # NoSample THEN previous.valueWh ELSE 0
        energyWh == IF input.energyWh # Undef THEN input.energyWh ELSE valueWh
        deltaWh == IF input.deltaWh # Undef
                   THEN input.deltaWh
                   ELSE IF previous # NoSample
                        THEN valueWh - previous.valueWh
                        ELSE Undef
    IN [timestamp |-> input.timestamp, valueWh |-> valueWh, energyWh |-> energyWh,
        deltaWh |-> deltaWh, transactionId |-> input.transactionId]

(* Array.prototype.sort with (a, b) => a.timestamp - b.timestamp: stable. *)
RECURSIVE InsertByTimestamp(_, _)
InsertByTimestamp(sorted, x) ==
    IF Len(sorted) = 0 THEN <<x>>
    ELSE IF sorted[Len(sorted)].timestamp <= x.timestamp
         THEN Append(sorted, x)
         ELSE Append(InsertByTimestamp(SubSeq(sorted, 1, Len(sorted) - 1), x),
                     sorted[Len(sorted)])

RECURSIVE SortByTimestamp(_)
SortByTimestamp(seq) ==
    IF Len(seq) = 0 THEN <<>>
    ELSE InsertByTimestamp(SortByTimestamp(SubSeq(seq, 1, Len(seq) - 1)), seq[Len(seq)])

FindIndex(samples, ts) ==
    IF \E i \in 1..Len(samples) : samples[i].timestamp = ts
    THEN CHOOSE i \in 1..Len(samples) :
            /\ samples[i].timestamp = ts
            /\ \A j \in 1..(i - 1) : samples[j].timestamp # ts
    ELSE 0

(* appendSample without the findIndex branch: a faulty variant that always   *)
(* inserts, used to show that AppendUpserts can tell the two apart.          *)
appendSampleAlwaysInsert(samples, sample) ==
    SortByTimestamp(Append(samples, sample))

appendSample(samples, sample) ==
    LET existingIndex == FindIndex(samples, sample.timestamp)
    IN IF existingIndex # 0
       THEN [samples EXCEPT ![existingIndex] = sample]
       ELSE SortByTimestamp(Append(samples, sample))

trimWindow(samples, windowMs) ==
    IF Len(samples) = 0 THEN samples
    ELSE LET latestTs == samples[Len(samples)].timestamp
             cutoff == latestTs - windowMs
             InWindow(s) == s.timestamp >= cutoff
             filtered == SelectSeq(samples, InWindow)
             n == Len(filtered)
         IN IF n <= MAX_POINTS THEN filtered
            ELSE LET stride == (n + MAX_POINTS - 1) \div MAX_POINTS
                     picked == (n + stride - 1) \div stride
                     reduced == [i \in 1..picked |-> filtered[(i - 1) * stride + 1]]
                 IN IF (picked - 1) * stride + 1 # n
                    THEN Append(reduced, filtered[n])
                    ELSE reduced

limitTelemetryHistory(series) ==
    IF Len(series) <= TELEMETRY_HISTORY_LIMIT THEN series
    ELSE SubSeq(series, Len(series) - TELEMETRY_HISTORY_LIMIT + 1, Len(series))

RECURSIVE AppendAll(_, _)
AppendAll(merged, additions) ==
    IF Len(additions) = 0 THEN merged
    ELSE AppendAll(appendSample(merged, Head(additions)), Tail(additions))

mergeTelemetryHistory(existing, additions) ==
    IF Len(additions) = 0 THEN existing
    ELSE limitTelemetryHistory(AppendAll(existing, additions))

----------------------------------------------------------------------------
(* Engine state: the per-connector maps *)

NoState == ""

NoRuntime == [state |-> "absent", transactionId |-> NoTx, startedAt |-> Undef,
              completedAt |-> Undef, updatedAt |-> Undef, meterStartWh |-> Undef,
              meterStopWh |-> Undef, finalSample |-> NoSample, lastSampleAt |-> Undef]

NoTimeline == [transactionId |-> NoTx, samples |-> <<>>]

NoReset == [type |-> "", stage |-> ""]

NoSnapshot == [present |-> FALSE, transactionId |-> NoTx, state |-> NoState,
               meterStartWh |-> Undef, meterStopWh |-> Undef, lastSample |-> NoSample]

(* existing?.state and existing?.transactionId of a record that may be missing *)
StateOf(runtime) == IF runtime = NoRuntime THEN NoState ELSE runtime.state
CoalesceState(a, b) == IF a # NoState THEN a ELSE b

Engine == [tl |-> meterTimelines, hist |-> telemetryHistory, sess |-> sessionsByConnector,
           frozen |-> frozenConnectors, hydrated |-> telemetryHydrated,
           snap |-> telemetrySnapshot, pending |-> pendingHistoryFetches,
           log |-> timelineEvents, keys |-> timelineKeys, throttle |-> telemetryThrottle,
           reset |-> resetFlow]

EmptyEngine == [tl |-> [c \in Connectors |-> NoTimeline],
                hist |-> [c \in Connectors |-> <<>>],
                sess |-> [c \in Connectors |-> NoRuntime],
                frozen |-> {}, hydrated |-> FALSE,
                snap |-> [c \in Connectors |-> NoSnapshot],
                pending |-> {},
                log |-> <<>>, keys |-> {},
                throttle |-> [c \in Connectors |-> Undef],
                reset |-> NoReset]

(* The timeline log.  A dedupeKey is the tuple of the values the code joins    *)
(* with ":" into the key string: the kind prefix, the connector, a transaction *)
(* or message, a timestamp, a tag, a second timestamp.  An entry carries its   *)
(* key, kind and timestamp; detail stands for the fields that may differ       *)
(* between two entries of one key (title, badge, subtitle).                    *)
TimelineKey(prefix, c, id, at, tag, at2) ==
    [prefix |-> prefix, connectorId |-> c, id |-> id, at |-> at, tag |-> tag, at2 |-> at2]

TimelineEntry(key, kind, timestamp, detail) ==
    [dedupeKey |-> key, kind |-> kind, timestamp |-> timestamp, detail |-> detail]

KeysOf(log) == {log[i].dedupeKey : i \in 1..Len(log)}

ReplaceByKey(log, entry) ==
    [i \in 1..Len(log) |-> IF log[i].dedupeKey = entry.dedupeKey THEN entry ELSE log[i]]

pushTimelineEventOverwrite(st, entry) ==
    IF entry.dedupeKey \in st.keys THEN [st EXCEPT !.log = ReplaceByKey(st.log, entry)]
    ELSE LET next == <<entry>> \o st.log
             kept == IF Len(next) > TIMELINE_EVENT_LIMIT
                     THEN SubSeq(next, 1, TIMELINE_EVENT_LIMIT)
                     ELSE next
         IN [st EXCEPT !.keys = KeysOf(kept), !.log = kept]

pushTimelineEventKeepKeys(st, entry) ==
    IF entry.dedupeKey \in st.keys THEN st
    ELSE LET next == <<entry>> \o st.log
             kept == IF Len(next) > TIMELINE_EVENT_LIMIT
                     THEN SubSeq(next, 1, TIMELINE_EVENT_LIMIT)
                     ELSE next
         IN [st EXCEPT !.keys = st.keys \cup {entry.dedupeKey}, !.log = kept]

pushTimelineEvent(st, entry) ==
    IF entry.dedupeKey \in st.keys THEN st
    ELSE LET next == <<entry>> \o st.log
             overflow == SubSeq(next, TIMELINE_EVENT_LIMIT + 1, Len(next))
             kept == IF Len(next) > TIMELINE_EVENT_LIMIT
                     THEN SubSeq(next, 1, TIMELINE_EVENT_LIMIT)
                     ELSE next
         IN [st EXCEPT !.keys = (st.keys \cup {entry.dedupeKey}) \ KeysOf(overflow),
                       !.log = kept]

(* shouldRecordTelemetry: its result, and the throttle map it leaves *)
shouldRecordTelemetry(throttle, c, ts) == ts - Coalesce(throttle[c], 0) >= TELEMETRY_EVENT_COOLDOWN_MS

ThrottleAfter(throttle, c, ts) ==
    IF shouldRecordTelemetry(throttle, c, ts) THEN [throttle EXCEPT ![c] = ts] ELSE throttle

(* applyTelemetryHistory({[connectorId]: [sample]}) *)
appendTelemetrySample(hist, c, sample) ==
    IF sample = NoSample THEN hist
    ELSE [hist EXCEPT ![c] = mergeTelemetryHistory(hist[c], <<sample>>)]

(* snapshotPayloadFromSample: the sample without its transaction id *)
snapshotPayloadFromSample(sample) ==
    IF sample = NoSample THEN NoSample ELSE [sample EXCEPT !.transactionId = NoTx]

(* buildSnapshotSample: normalizeSample(snapshot.lastSample, undefined) *)
buildSnapshotSample(lastSample) ==
    IF lastSample = NoSample THEN NoSample
    ELSE normalizeSample(RawSampleInput(lastSample.timestamp, lastSample.valueWh,
                                        lastSample.deltaWh, lastSample.energyWh,
                                        lastSample.transactionId), NoSample)

(* The effect on telemetrySnapshotMap: it runs whenever data.telemetrySnapshot *)
(* is replaced, by a fetch of the station detail or by patchTelemetrySnapshot. *)
(* snapshotHistory is filled by the first updater; it is applied to the        *)
(* history buffer when that updater ran at the call.                           *)
SnapshotRuntime(existing, snapshot) ==
    LET sample == buildSnapshotSample(snapshot.lastSample)
    IN [state |-> CoalesceState(snapshot.state, CoalesceState(StateOf(existing), "idle")),
        transactionId |-> CoalesceTx(snapshot.transactionId, existing.transactionId),
        startedAt |-> existing.startedAt,
        completedAt |-> existing.completedAt,
        updatedAt |-> existing.updatedAt,
        meterStartWh |-> Coalesce(snapshot.meterStartWh, existing.meterStartWh),
        meterStopWh |-> Coalesce(snapshot.meterStopWh, existing.meterStopWh),
        finalSample |-> IF sample # NoSample THEN sample ELSE existing.finalSample,
        lastSampleAt |-> IF sample # NoSample THEN sample.timestamp
                         ELSE existing.lastSampleAt]

SnapshotTimeline(existing, snapshot) ==
    LET sample == buildSnapshotSample(snapshot.lastSample)
    IN IF sample = NoSample \/ Len(existing.samples) > 0 THEN existing
       ELSE [transactionId |-> CoalesceTx(snapshot.transactionId, existing.transactionId),
             samples |-> <<sample>>]

telemetrySnapshotEffect(st, eager) ==
    LET InMap(c) == st.snap[c].present
    IN [st EXCEPT
          !.sess = [c \in Connectors |->
                      IF InMap(c) THEN SnapshotRuntime(st.sess[c], st.snap[c])
                      ELSE st.sess[c]],
          !.tl = [c \in Connectors |->
                      IF InMap(c) THEN SnapshotTimeline(st.tl[c], st.snap[c])
                      ELSE st.tl[c]],
          !.hist = [c \in Connectors |->
                      IF InMap(c) /\ eager
                      THEN appendTelemetrySample(st.hist, c,
                               buildSnapshotSample(st.snap[c].lastSample))[c]
                      ELSE st.hist[c]]]

(* patchTelemetrySnapshot: {...existing, ...updates}; a key of updates whose *)
(* value is undefined overwrites the cached value.  setQueryData keeps the   *)
(* cached object when the patched one is deep-equal (structural sharing), so *)
(* the effect runs only when the snapshot changed.                           *)
patchTelemetrySnapshot(st, c, updates, eager) ==
    IF st.snap[c] = updates THEN st
    ELSE telemetrySnapshotEffect([st EXCEPT !.snap[c] = updates], eager)

(* hydrateConnectorHistory up to its await: the per-fetch key guard *)
FetchKeys == Connectors \X TxIds

hydrateConnectorHistoryIssue(pending, c, tx) ==
    IF tx = NoTx \/ <<c, tx>> \in pending THEN pending ELSE pending \cup {<<c, tx>>}

----------------------------------------------------------------------------
(* Push frames.  A frame is [kind, connectorId, timestamp, valueWh, deltaWh,  *)
(* energyWh, transactionId]; valueWh is meterStartWh of session.started and   *)
(* meterStopWh of session.stopped; timestamp is sampleTimestamp / startedAt / *)
(* sampleTimestamp-else-endedAt.                                              *)

Frame(kind, c, ts, valueWh, deltaWh, energyWh, tx) ==
    [kind |-> kind, connectorId |-> c, timestamp |-> ts, valueWh |-> valueWh,
     deltaWh |-> deltaWh, energyWh |-> energyWh, transactionId |-> tx]

(* case "meter.sample" *)
MeterSampleRuntime(existing, txId, sample, recorded) ==
    IF existing = NoRuntime THEN existing
    ELSE LET tagged ==
                 IF txId # NoTx
                    /\ ~(existing.transactionId # NoTx /\ existing.transactionId # txId)
                 THEN [existing EXCEPT !.transactionId = txId]
                 ELSE existing
         IN IF recorded
            THEN [tagged EXCEPT !.finalSample = sample, !.lastSampleAt = sample.timestamp]
            ELSE tagged

(* recordedSample is assigned by the setMeterTimelines updater, the first one *)
(* the handler queues.                                                        *)
handleMeterSample(st, f, eager) ==
    LET c == f.connectorId
    IN IF c <= 0 \/ f.valueWh = Undef THEN st
       ELSE IF c \in st.frozen \/ st.sess[c].state = "completed" THEN st
       ELSE LET existing == st.tl[c]
                transactionToUse == CoalesceTx(f.transactionId, existing.transactionId)
                normalizedSample ==
                    normalizeSample(RawSampleInput(f.timestamp, f.valueWh, f.deltaWh,
                                                   f.energyWh, transactionToUse),
                                    Last(existing.samples))
                updatedSamples == trimWindow(appendSample(existing.samples, normalizedSample),
                                             TELEMETRY_WINDOW_MS)
                sampled == [st EXCEPT
                  !.tl[c] = [transactionId |-> transactionToUse, samples |-> updatedSamples],
                  !.sess[c] = MeterSampleRuntime(st.sess[c], f.transactionId,
                                                 normalizedSample, eager),
                  !.hist = IF eager THEN appendTelemetrySample(st.hist, c, normalizedSample)
                           ELSE st.hist]
            IN IF eager /\ shouldRecordTelemetry(st.throttle, c, normalizedSample.timestamp)
               THEN pushTimelineEvent(
                        [sampled EXCEPT
                           !.throttle = ThrottleAfter(st.throttle, c, normalizedSample.timestamp)],
                        TimelineEntry(
                            TimelineKey("meter", c, NoTx, normalizedSample.timestamp, "", Undef),
                            "meter", normalizedSample.timestamp, st.sess[c].state))
               ELSE sampled

(* case "session.started" *)
ResolvedStart(existing, meterStartWh) ==
    LET previousStop == existing.meterStopWh
        resolvedStart == Coalesce(meterStartWh, Coalesce(previousStop, 0))
    IN IF previousStop # Undef /\ resolvedStart < previousStop
       THEN previousStop
       ELSE resolvedStart

SessionStartedRuntime(existing, f) ==
    [state |-> "charging",
     transactionId |-> CoalesceTx(f.transactionId, existing.transactionId),
     startedAt |-> f.timestamp,
     completedAt |-> Undef,
     updatedAt |-> f.timestamp,
     meterStartWh |-> ResolvedStart(existing, f.valueWh),
     meterStopWh |-> Undef,
     finalSample |-> NoSample,
     lastSampleAt |-> f.timestamp]

(* normalizedMeterStart is resolved by the setSessionsByConnector updater, the *)
(* first one queued: the setMeterTimelines updater and the snapshot patch read *)
(* the resolved value when it ran at the call, the frame's own otherwise.      *)
(* baselineSample is assigned by the second updater, which runs at the render: *)
(* it is still null at lines 2196-2198 and in the patch.                       *)
handleSessionStarted(st, f, eager, effectEager) ==
    LET c == f.connectorId
        normalizedMeterStart ==
            IF eager THEN ResolvedStart(st.sess[c], f.valueWh) ELSE f.valueWh
        existing == st.tl[c]
        baselineSample ==
            normalizeSample(RawSampleInput(f.timestamp, Coalesce(normalizedMeterStart, 0),
                                           Undef, Coalesce(normalizedMeterStart, 0),
                                           CoalesceTx(f.transactionId, existing.transactionId)),
                            NoSample)
        updated ==
            [st EXCEPT
               !.frozen = st.frozen \ {c},
               !.throttle[c] = 0,
               !.sess[c] = SessionStartedRuntime(st.sess[c], f),
               !.tl[c] = [transactionId |-> CoalesceTx(f.transactionId, existing.transactionId),
                          samples |-> trimWindow(appendSample(existing.samples, baselineSample),
                                                 TELEMETRY_WINDOW_MS)]]
    IN IF c <= 0 THEN st
       ELSE pushTimelineEvent(
                patchTelemetrySnapshot(updated, c,
                    [present |-> TRUE, transactionId |-> f.transactionId, state |-> "CHARGING",
                     meterStartWh |-> normalizedMeterStart, meterStopWh |-> Undef,
                     lastSample |-> NoSample],
                    effectEager),
                TimelineEntry(
                    TimelineKey("session", c, f.transactionId,
                                IF f.transactionId = NoTx THEN f.timestamp ELSE Undef,
                                "start", Undef),
                    "session", f.timestamp, "Session started"))

(* case "session.stopped": Number(event.meterStopWh ?? "") is 0 on a frame   *)
(* without a register, so the stop register is always finite.                *)
MeterStopOf(f) == IF f.valueWh # Undef THEN f.valueWh ELSE 0

SessionStoppedRuntime(existing, f, stopSample) ==
    IF existing = NoRuntime THEN existing
    ELSE IF f.transactionId # NoTx /\ existing.transactionId # NoTx
            /\ existing.transactionId # f.transactionId
         THEN existing
         ELSE [existing EXCEPT
                 !.state = "completed",
                 !.completedAt = f.timestamp,
                 !.updatedAt = f.timestamp,
                 !.meterStopWh = MeterStopOf(f),
                 !.transactionId = CoalesceTx(f.transactionId, existing.transactionId),
                 !.finalSample = stopSample,
                 !.lastSampleAt = stopSample.timestamp]

(* finalizedSample is assigned by the setMeterTimelines updater, the second    *)
(* one queued: it ran at the call only when the first ran at the call and      *)
(* returned the map it was given.                                              *)
handleSessionStopped(st, f, eager, effectEager) ==
    LET c == f.connectorId
        meterStopWh == MeterStopOf(f)
        timelineSnapshot == st.tl[c]
        previousSession == st.sess[c]
        stopSample ==
            normalizeSample(RawSampleInput(f.timestamp, meterStopWh, f.deltaWh,
                                           Coalesce(f.energyWh, meterStopWh),
                                           CoalesceTx(f.transactionId,
                                                      timelineSnapshot.transactionId)),
                            Last(timelineSnapshot.samples))
        historyTransaction ==
            CoalesceTx(f.transactionId,
                       CoalesceTx(timelineSnapshot.transactionId, previousSession.transactionId))
        finalized ==
            eager /\ SessionStoppedRuntime(st.sess[c], f, stopSample) = st.sess[c]
        updated ==
            [st EXCEPT
               !.sess[c] = SessionStoppedRuntime(st.sess[c], f, stopSample),
               !.frozen = st.frozen \cup {c},
               !.tl[c] = [transactionId |-> CoalesceTx(f.transactionId,
                                                      timelineSnapshot.transactionId),
                          samples |-> trimWindow(appendSample(timelineSnapshot.samples,
                                                              stopSample),
                                                 TELEMETRY_WINDOW_MS)],
               !.hist = IF finalized THEN appendTelemetrySample(st.hist, c, stopSample)
                        ELSE st.hist,
               !.pending = hydrateConnectorHistoryIssue(st.pending, c, historyTransaction)]
        cached == st.snap[c]
    IN IF c <= 0 THEN st
       ELSE pushTimelineEvent(
                patchTelemetrySnapshot(updated, c,
                    [present |-> TRUE, transactionId |-> f.transactionId, state |-> "COMPLETED",
                     meterStartWh |-> cached.meterStartWh, meterStopWh |-> meterStopWh,
                     lastSample |-> snapshotPayloadFromSample(stopSample)],
                    effectEager),
                TimelineEntry(
                    TimelineKey("session", c, f.transactionId,
                                IF f.transactionId = NoTx THEN f.timestamp ELSE Undef,
                                "stop", f.timestamp),
                    "session", f.timestamp, "Session completed"))

----------------------------------------------------------------------------
(* REST session rows (SimulatedSession) and mergeSessionSnapshots.  A row is  *)
(* [connectorId, state, started_at, completed_at, updated_at, created_at,     *)
(* cms_transaction_key, meter_start_wh, meter_stop_wh]; connectorId is the     *)
(* result of resolveConnectorNumber, 0 when it resolves to null.               *)

SessionRow(c, state, startedAt, completedAt, updatedAt, createdAt, tx, meterStart, meterStop) ==
    [connectorId |-> c, state |-> state, started_at |-> startedAt,
     completed_at |-> completedAt, updated_at |-> updatedAt, created_at |-> createdAt,
     cms_transaction_key |-> tx, meter_start_wh |-> meterStart, meter_stop_wh |-> meterStop]

RowStart(row, existing) ==
    Coalesce(row.started_at, Coalesce(row.created_at, existing.startedAt))

RowEventTime(row, existing) ==
    Coalesce(row.updated_at,
        Coalesce(row.completed_at,
            Coalesce(row.started_at, Coalesce(row.created_at, existing.updatedAt))))

(* mergeSessionRow without its two recency guards: a faulty variant used to  *)
(* show that RestRowsRespectRecency can tell the two apart.                   *)
mergeSessionRowUnguarded(existing, row) ==
    [state |-> CoalesceState(row.state, CoalesceState(StateOf(existing), "idle")),
     transactionId |-> CoalesceTx(row.cms_transaction_key, existing.transactionId),
     startedAt |-> RowStart(row, existing),
     completedAt |-> Coalesce(row.completed_at, existing.completedAt),
     updatedAt |-> Coalesce(RowEventTime(row, existing), existing.updatedAt),
     meterStartWh |-> Coalesce(row.meter_start_wh, existing.meterStartWh),
     meterStopWh |-> Coalesce(row.meter_stop_wh, existing.meterStopWh),
     finalSample |-> NoSample,
     lastSampleAt |-> Undef]

mergeSessionRow(existing, row) ==
    LET startedAt == RowStart(row, existing)
        candidateUpdatedAt == RowEventTime(row, existing)
    IN IF existing # NoRuntime /\ existing.startedAt # Undef /\ startedAt # Undef
          /\ startedAt < existing.startedAt
       THEN existing
       ELSE IF existing # NoRuntime /\ existing.updatedAt # Undef
               /\ candidateUpdatedAt # Undef /\ candidateUpdatedAt < existing.updatedAt
            THEN existing
            ELSE [state |-> CoalesceState(row.state,
                                CoalesceState(StateOf(existing), "idle")),
                  transactionId |-> CoalesceTx(row.cms_transaction_key, existing.transactionId),
                  startedAt |-> startedAt,
                  completedAt |-> Coalesce(row.completed_at, existing.completedAt),
                  updatedAt |-> Coalesce(candidateUpdatedAt, existing.updatedAt),
                  meterStartWh |-> Coalesce(row.meter_start_wh, existing.meterStartWh),
                  meterStopWh |-> Coalesce(row.meter_stop_wh, existing.meterStopWh),
                  finalSample |-> NoSample,
                  lastSampleAt |-> Undef]

RECURSIVE mergeSessionSnapshots(_, _)
mergeSessionSnapshots(sess, snapshots) ==
    IF Len(snapshots) = 0 THEN sess
    ELSE LET session == Head(snapshots)
             c == session.connectorId
         IN mergeSessionSnapshots(
                IF c \in Connectors
                THEN [sess EXCEPT ![c] = mergeSessionRow(sess[c], session)]
                ELSE sess,
                Tail(snapshots))

handleRestSessions(st, snapshots) ==
    [st EXCEPT !.sess = mergeSessionSnapshots(st.sess, snapshots)]

----------------------------------------------------------------------------
(* REST meter-value rows (SimulatedMeterValue): [connectorId, timestamp,      *)
(* valueWh, energyWh, transactionId], timestamp being sampledAt and energyWh   *)
(* payload.energyKwh.                                                         *)

MeterRow(c, ts, valueWh, energyWh, tx) ==
    [connectorId |-> c, timestamp |-> ts, valueWh |-> valueWh, energyWh |-> energyWh,
     transactionId |-> tx]

Reverse(seq) == [i \in 1..Len(seq) |-> seq[Len(seq) + 1 - i]]

(* The effect on meterValuesQuery.data.results (bootstrap of the live series) *)
RECURSIVE BootstrapFold(_, _)
BootstrapFold(acc, ordered) ==
    IF Len(ordered) = 0 THEN acc
    ELSE LET reading == Head(ordered)
             c == reading.connectorId
         IN IF c \notin Connectors THEN BootstrapFold(acc, Tail(ordered))
            ELSE LET timeline == acc.tl[c]
                     normalized ==
                         normalizeSample(
                             RawSampleInput(reading.timestamp, reading.valueWh, Undef,
                                            Coalesce(reading.energyWh, reading.valueWh),
                                            reading.transactionId),
                             Last(timeline.samples))
                     appended == appendSample(timeline.samples, normalized)
                 IN BootstrapFold(
                        [tl |-> [acc.tl EXCEPT ![c] =
                                    [transactionId |-> CoalesceTx(reading.transactionId,
                                                                  timeline.transactionId),
                                     samples |-> trimWindow(appended, TELEMETRY_WINDOW_MS)]],
                         batches |-> [acc.batches EXCEPT ![c] = Append(@, normalized)]],
                        Tail(ordered))

(* historyBatches is filled by the setMeterTimelines updater *)
handleMeterValues(st, results, eager) ==
    IF Len(results) = 0 THEN st
    ELSE LET folded == BootstrapFold([tl |-> st.tl, batches |-> [c \in Connectors |-> <<>>]],
                                     Reverse(results))
         IN [st EXCEPT
               !.tl = folded.tl,
               !.hist = [c \in Connectors |->
                            IF eager
                            THEN mergeTelemetryHistory(st.hist[c], folded.batches[c])
                            ELSE st.hist[c]]]

(* hydrateConnectorHistory after its await: the response of the back-fill read *)
RECURSIVE NormalizeChain(_, _, _)
NormalizeChain(readings, previous, c) ==
    IF Len(readings) = 0 THEN <<>>
    ELSE LET reading == Head(readings)
         IN IF reading.connectorId # c THEN NormalizeChain(Tail(readings), previous, c)
            ELSE LET sample ==
                         normalizeSample(
                             RawSampleInput(reading.timestamp, reading.valueWh, Undef,
                                            Coalesce(reading.energyWh, reading.valueWh),
                                            reading.transactionId),
                             previous)
                 IN <<sample>> \o NormalizeChain(Tail(readings), sample, c)

hydrateConnectorHistoryResolve(st, fetchKey, results) ==
    LET transactionId == fetchKey[2]
        sorted == SortByTimestamp(results)
        normalizedByConnector == [c \in Connectors |-> NormalizeChain(sorted, NoSample, c)]
    IN [st EXCEPT
          !.tl = [c \in Connectors |->
                    IF Len(normalizedByConnector[c]) = 0 THEN st.tl[c]
                    ELSE [transactionId |-> transactionId,
                          samples |-> limitTelemetryHistory(normalizedByConnector[c])]],
          !.hist = [c \in Connectors |->
                      mergeTelemetryHistory(st.hist[c], normalizedByConnector[c])],
          !.pending = st.pending \ {fetchKey}]

----------------------------------------------------------------------------
(* Station detail: data.telemetryHistory and data.telemetrySnapshot.  A        *)
(* history entry is [present, transactionId, state, meterStartWh, meterStopWh, *)
(* samples], samples being raw TelemetrySampleSnapshot records.                *)

NoHistory == [present |-> FALSE, transactionId |-> NoTx, state |-> NoState,
              meterStartWh |-> Undef, meterStopWh |-> Undef, samples |-> <<>>]

RECURSIVE NormalizeHistory(_, _, _)
NormalizeHistory(snapshots, previous, historyTx) ==
    IF Len(snapshots) = 0 THEN <<>>
    ELSE LET snapshot == Head(snapshots)
             normalized ==
                 normalizeSample(
                     RawSampleInput(snapshot.timestamp, snapshot.valueWh, snapshot.deltaWh,
                                    snapshot.energyWh,
                                    CoalesceTx(snapshot.transactionId, historyTx)),
                     previous)
         IN <<normalized>> \o NormalizeHistory(Tail(snapshots), normalized, historyTx)

HistoryRuntime(existing, history, finalSample) ==
    [state |-> CoalesceState(history.state, CoalesceState(StateOf(existing), "idle")),
     transactionId |-> CoalesceTx(history.transactionId, existing.transactionId),
     startedAt |-> existing.startedAt,
     completedAt |-> existing.completedAt,
     updatedAt |-> existing.updatedAt,
     meterStartWh |-> Coalesce(history.meterStartWh, existing.meterStartWh),
     meterStopWh |-> Coalesce(history.meterStopWh, existing.meterStopWh),
     finalSample |-> finalSample,
     lastSampleAt |-> IF finalSample # NoSample THEN finalSample.timestamp
                      ELSE existing.lastSampleAt]

(* The effect on telemetryHistoryMap *)
telemetryHistoryEffect(st, historyMap) ==
    LET historyBatches ==
            [c \in Connectors |->
                IF historyMap[c].present
                THEN NormalizeHistory(historyMap[c].samples, NoSample,
                                      historyMap[c].transactionId)
                ELSE <<>>]
    IN IF st.hydrated \/ \A c \in Connectors : ~historyMap[c].present THEN st
       ELSE IF \A c \in Connectors : Len(historyBatches[c]) = 0 THEN st
       ELSE [st EXCEPT
               !.hist = [c \in Connectors |->
                           mergeTelemetryHistory(st.hist[c], historyBatches[c])],
               !.tl = [c \in Connectors |->
                         IF Len(historyBatches[c]) = 0 THEN st.tl[c]
                         ELSE [transactionId |->
                                   CoalesceTx(historyMap[c].transactionId,
                                              Last(historyBatches[c]).transactionId),
                               samples |-> trimWindow(historyBatches[c],
                                                      TELEMETRY_WINDOW_MS)]],
               !.sess = [c \in Connectors |->
                           IF historyMap[c].present
                           THEN HistoryRuntime(st.sess[c], historyMap[c],
                                               Last(historyBatches[c]))
                           ELSE st.sess[c]],
               !.hydrated = TRUE]

(* A (re)fetch of the station detail replaces data; both effects run on it. *)
handleDetailFetched(st, snapshotMap, historyMap, effectEager) ==
    LET hydrated == telemetryHistoryEffect([st EXCEPT !.snap = snapshotMap], historyMap)
    IN IF snapshotMap = st.snap THEN hydrated
       ELSE telemetrySnapshotEffect(hydrated, effectEager)

(* The effect on connectorsSummary that back-fills a closed session whose     *)
(* history buffer holds at most one sample.  summary.sessionState is           *)
(* runtime.state and summary.transactionKey is runtime.transactionKey ??       *)
(* timeline.transactionKey when the connector has a runtime.                   *)
SummaryTransactionKey(st, c) == CoalesceTx(st.sess[c].transactionId, st.tl[c].transactionId)

NeedsBackfill(st, c) ==
    /\ st.sess[c].state \in {"completed", "finishing"}
    /\ SummaryTransactionKey(st, c) # NoTx
    /\ Len(st.hist[c]) <= 1

backfillEffect(st) ==
    [st EXCEPT !.pending =
        st.pending \cup {<<c, SummaryTransactionKey(st, c)>> :
                            c \in {d \in Connectors : NeedsBackfill(st, d)}}]

----------------------------------------------------------------------------
(* Frames that only write the timeline log, and the resets.                    *)

(* case "connector.status": [connectorId, timestamp, status, errorCode,        *)
(* vendorErrorCode]; status is the normalised status, errorCode "NoError" when *)
(* the frame reports none.  Number() of a missing or non-numeric connector id  *)
(* is NaN, written Undef.  patchConnectorStatus only rewrites the displayed    *)
(* status of a connector of the cached station detail with that id.            *)
StatusFrame(c, ts, connectorStatus, errorCode, vendorErrorCode) ==
    [kind |-> "connector.status", connectorId |-> c, timestamp |-> ts,
     status |-> connectorStatus,
     errorCode |-> errorCode, vendorErrorCode |-> vendorErrorCode]

handleConnectorStatus(st, f) ==
    LET isFault == f.errorCode # "NoError"
    IN pushTimelineEvent(st,
           TimelineEntry(
               TimelineKey("connector", f.connectorId, f.status, f.timestamp, f.errorCode, Undef),
               IF isFault THEN "fault" ELSE "connector", f.timestamp,
               IF isFault THEN f.vendorErrorCode ELSE ""))

(* case "log.entry": [level, message, timestamp] *)
LogFrame(level, message, ts) ==
    [kind |-> "log.entry", connectorId |-> 0, level |-> level, message |-> message,
     timestamp |-> ts]

handleLogEntry(st, f) ==
    IF f.level = "info" THEN st
    ELSE pushTimelineEvent(st,
             TimelineEntry(TimelineKey("log", 0, f.message, f.timestamp, "", Undef),
                           "log", f.timestamp, f.level))

(* case "simulator.state": [state, connected, timestamp]; state is NoState and *)
(* connected is "absent" when the frame does not carry them.  A frame that     *)
(* reports the CMS connection back during a reset wipes the page.              *)
StateFrame(state, connected, ts) ==
    [kind |-> "simulator.state", connectorId |-> 0, state |-> state, connected |-> connected,
     timestamp |-> ts]

WipeTelemetry(st) ==
    [st EXCEPT !.log = <<>>, !.keys = {},
               !.tl = EmptyEngine.tl, !.hist = EmptyEngine.hist, !.sess = EmptyEngine.sess,
               !.throttle = EmptyEngine.throttle, !.frozen = {}]

handleSimulatorState(st, f) ==
    LET recorded ==
            IF f.state # NoState
            THEN pushTimelineEvent(st,
                     TimelineEntry(TimelineKey("lifecycle", 0, f.state, f.timestamp, "", Undef),
                                   "lifecycle", f.timestamp, f.connected))
            ELSE st
        resetFlowRef == st.reset
    IN IF f.connected = "absent" \/ resetFlowRef = NoReset THEN recorded
       ELSE IF f.connected = "false"
       THEN IF resetFlowRef.stage = "requested"
            THEN [recorded EXCEPT !.reset.stage = "rebooting"]
            ELSE recorded
       ELSE IF resetFlowRef.stage # "reconnected"
            THEN [WipeTelemetry(recorded) EXCEPT !.reset.stage = "reconnected"]
            ELSE recorded

(* The effect on the CMS charging sessions of the charger: a "start" event for *)
(* every session and a "stop" event for every closed one, at every fetch.  A   *)
(* row is [connectorId, tx, start_time, end_time].                             *)
CmsRow(c, tx, startTime, endTime) ==
    [connectorId |-> c, tx |-> tx, start_time |-> startTime, end_time |-> endTime]

RECURSIVE cmsSessionsEffect(_, _)
cmsSessionsEffect(st, sessions) ==
    IF Len(sessions) = 0 THEN st
    ELSE LET session == Head(sessions)
             started ==
                 pushTimelineEvent(st,
                     TimelineEntry(
                         TimelineKey("session", session.connectorId, session.tx, Undef,
                                     "start", Undef),
                         "session", session.start_time, "CMS session recorded"))
             closed ==
                 IF session.end_time = Undef THEN started
                 ELSE pushTimelineEvent(started,
                          TimelineEntry(
                              TimelineKey("session", session.connectorId, session.tx, Undef,
                                          "stop", Undef),
                              "session", session.end_time, "CMS session closed"))
         IN cmsSessionsEffect(closed, Tail(sessions))

(* handleResetCharger / handleForceReset after the command was accepted *)
handleResetRequested(st, type) ==
    [st EXCEPT !.reset = [type |-> type,
                          stage |-> IF type = "Soft" THEN "rebooting" ELSE "requested"]]

(* The timers of the resetFlow effect: reconnected is cleared after 4 s, a     *)
(* Soft reset that is rebooting is taken as reconnected after 2 s.             *)
ResetTimerDue(st) ==
    \/ st.reset.stage = "reconnected"
    \/ st.reset.type = "Soft" /\ st.reset.stage = "rebooting"

handleResetTimer(st) ==
    IF st.reset.stage = "reconnected" THEN [st EXCEPT !.reset = NoReset]
    ELSE IF st.reset.type = "Soft" /\ st.reset.stage = "rebooting"
    THEN [st EXCEPT !.reset.stage = "reconnected"]
    ELSE st

(* The effects on simulatorId: the page is shown for another simulator, whose  *)
(* station detail is not loaded yet.                                           *)
simulatorChangedEffect(st) ==
    [WipeTelemetry(st) EXCEPT !.hydrated = FALSE, !.snap = EmptyEngine.snap]

----------------------------------------------------------------------------
(* Observations the engine is driven with *)

T1 == TickMs
T2 == 2 * TickMs
T3 == 3 * TickMs

MeterFrames ==
    {Frame("meter.sample", c, m[1], m[2], Undef, Undef, NoTx) :
        c \in Connectors, m \in {<<T1, 500>>, <<T2, 300>>, <<T3, 500>>}}

StartFrames ==
    {Frame("session.started", c, s[1], Undef, Undef, Undef, s[2]) :
        c \in Connectors, s \in {<<T1, "TX1">>, <<T2, "TX1">>, <<T3, "TX2">>}}

StopFrames ==
    {Frame("session.stopped", c, ts, 500, Undef, Undef, "TX1") :
        c \in Connectors, ts \in {T2, T3}}

(* Rows of an open session, of a closed one (completed_at set), and one open  *)
(* row whose updated_at is older than its start.                              *)
SessionRows ==
    {SessionRow(c, "charging", T1, Undef, Undef, T1, "TX1", 0, Undef) : c \in Connectors}
    \cup {SessionRow(c, state, span[1], span[2], Undef, span[1], "TX1", 0, 500) :
            c \in Connectors, state \in {"completed", "errored"},
            span \in {<<T1, T2>>}}
    \cup {SessionRow(c, "charging", T2, Undef, T1, T2, "TX1", 0, Undef) : c \in Connectors}
    \cup {SessionRow(c, "charging", T3, Undef, Undef, T3, "TX2", 500, Undef) :
            c \in Connectors}

MeterRows ==
    {MeterRow(c, ts, 500, Undef, "TX1") : c \in Connectors, ts \in {T1, T2}}

Batches(rows) ==
    UNION {[1..n -> rows] : n \in 1..MaxBatch}

SnapshotInputs ==
    {[present |-> TRUE, transactionId |-> "TX1", state |-> state, meterStartWh |-> Undef,
      meterStopWh |-> Undef, lastSample |-> NoSample] : state \in {"charging", "idle"}}

HistoryInputs ==
    {[present |-> TRUE, transactionId |-> "TX1", state |-> "charging", meterStartWh |-> 0,
      meterStopWh |-> Undef, samples |-> samples] :
        samples \in Batches({RawSampleInput(ts, 500, Undef, Undef, NoTx) : ts \in {T1, T2}})}

----------------------------------------------------------------------------
(* Reconnecting channel: useWebSocketChannel as SimulatorSocketBridge uses it, *)
(* one bridge per station key of activeIds.  A socket keeps the closures it    *)
(* was created with; close() moves it to CLOSING and its close event is        *)
(* delivered later.                                                            *)

MIN_RECONNECT_DELAY == 1000
JITTER_RATIO == 35          \* in percent (0.35)
reconnectDelayMs == 1800    \* the bridge's reconnectDelayMs option
heartbeatIntervalMs == 25000 \* the bridge's heartbeatIntervalMs option
autoReconnect == TRUE       \* the bridge's autoReconnect option

MaxSockets == 3             \* sockets created in one behaviour
MaxListeners == 2           \* subscribers of the station at one time

Station == "CP1"
Tokens == {"tokenA", "tokenB"}
NoUrl == ""
JitterDraws == {0, 500, 999}    \* Math.random(), in thousandths

Maximum(a, b) == IF a >= b THEN a ELSE b
Minimum(a, b) == IF a <= b THEN a ELSE b

baseDelay == Maximum(reconnectDelayMs, MIN_RECONNECT_DELAY)
maxDelay == Maximum(baseDelay * 10, baseDelay)

LiveStates == {"CONNECTING", "OPEN"}

NoTimer == [pending |-> FALSE, delay |-> 0]
NoBridge == [mounted |-> FALSE, url |-> NoUrl, shouldConnect |-> FALSE]
NoMessage == [kind |-> "null", value |-> ""]
NoChannelEvent == [kind |-> "init", socket |-> 0, detail |-> "", handlerCalls |-> 0]

(* buildSimulatorSocketUrl: the address carries the access token *)
SocketUrl(can, token) == IF can THEN token ELSE NoUrl

(* Frames a socket delivers: nothing, JSON texts, a text that is no JSON *)
Payloads == {"", "{\"type\":\"heartbeat\"}", "null", "pong"}

(* JSON.parse(String(data)): the value of a JSON text, a throw otherwise *)
JSONparse(text) ==
    CASE text = "{\"type\":\"heartbeat\"}" ->
            [threw |-> FALSE, value |-> [kind |-> "json", value |-> "object:type=heartbeat"]]
      [] text = "null" -> [threw |-> FALSE, value |-> NoMessage]
      [] OTHER -> [threw |-> TRUE, value |-> NoMessage]

(* The state and refs of the mounted hook instance, the sockets created so far *)
Channel ==
    [sockets |-> sockets, socketRef |-> socketRef, reconnectTimer |-> reconnectTimer,
     manualCloseRef |-> manualCloseRef, reconnectDelayRef |-> reconnectDelayRef,
     unauthorizedPending |-> unauthorizedPending, failures |-> failures,
     status |-> status, lastMessage |-> lastMessage, heartbeatTimerRef |-> heartbeatTimerRef]

clearReconnectTimer(ch) == [ch EXCEPT !.reconnectTimer = NoTimer]

clearHeartbeat(ch) == [ch EXCEPT !.heartbeatTimerRef = FALSE]

startHeartbeat(ch) ==
    IF heartbeatIntervalMs <= 0 THEN clearHeartbeat(ch)
    ELSE [ch EXCEPT !.heartbeatTimerRef = TRUE]

(* shouldConnect is the flag of the render that created the calling closure;  *)
(* draw is Math.random().  failures counts the delays scheduled since the     *)
(* last open.                                                                 *)
scheduleReconnect(ch, shouldConnect, draw) ==
    IF ~autoReconnect \/ ch.reconnectTimer.pending \/ ~shouldConnect THEN ch
    ELSE LET delayBase == Minimum(ch.reconnectDelayRef, maxDelay)
             jitter == (delayBase * JITTER_RATIO) \div 100
             delay == Maximum(0, delayBase + ((draw * jitter * 2) \div 1000 - jitter))
         IN [ch EXCEPT !.reconnectTimer = [pending |-> TRUE, delay |-> delay],
                       !.failures = @ + 1]

(* WebSocket.close(): a socket not yet closed starts closing *)
CloseCalled(readyState) == IF readyState \in LiveStates THEN "CLOSING" ELSE readyState

disposeSocket(ch) ==
    IF ch.socketRef = 0 THEN ch
    ELSE [ch EXCEPT !.manualCloseRef = TRUE,
                    !.sockets[ch.socketRef].readyState = CloseCalled(@)]

connect(ch, url, shouldConnect) ==
    IF url = NoUrl \/ ~shouldConnect THEN ch
    ELSE IF /\ ch.socketRef # 0
            /\ ch.sockets[ch.socketRef].url = url
            /\ ch.sockets[ch.socketRef].readyState \in LiveStates
    THEN ch
    ELSE [clearReconnectTimer(ch) EXCEPT
            !.manualCloseRef = FALSE,
            !.status = "connecting",
            !.sockets = Append(@, [url |-> url, readyState |-> "CONNECTING",
                                   shouldConnect |-> shouldConnect, stale |-> FALSE]),
            !.socketRef = Len(ch.sockets) + 1]

(* The cleanup the activation effect returned when it connected *)
activationCleanup(ch, prev) ==
    IF prev.mounted /\ prev.url # NoUrl /\ prev.shouldConnect
    THEN disposeSocket(clearHeartbeat(clearReconnectTimer(ch)))
    ELSE ch

(* The activation effect re-run for new props: the cleanup of the previous    *)
(* run, then the body.                                                        *)
activationEffect(ch, prev, url, shouldConnect) ==
    LET cleaned == activationCleanup(ch, prev)
    IN IF url = NoUrl \/ ~shouldConnect
       THEN [clearHeartbeat(clearReconnectTimer(disposeSocket(cleaned)))
                EXCEPT !.status = "idle"]
       ELSE startHeartbeat(connect(cleaned, url, shouldConnect))

(* socket.onopen of socket s *)
onopen(ch, s) ==
    IF ch.sockets[s].stale THEN [ch EXCEPT !.sockets[s].readyState = "OPEN"]
    ELSE [ch EXCEPT !.sockets[s].readyState = "OPEN",
                    !.reconnectDelayRef = baseDelay,
                    !.status = "open",
                    !.failures = 0]

triggerReconnect(ch, s, draw) ==
    IF ch.manualCloseRef THEN [ch EXCEPT !.manualCloseRef = FALSE]
    ELSE scheduleReconnect(ch, ch.sockets[s].shouldConnect, draw)

(* socket.onclose of socket s; unauthorized is isUnauthorizedEvent(event).    *)
(* The bridge's onUnauthorized is async: the outcome is a promise.  A socket  *)
(* of an unmounted bridge writes the refs of that bridge, which nothing reads. *)
onclose(ch, s, unauthorized, draw) ==
    LET closed == [ch EXCEPT !.sockets[s].readyState = "CLOSED"]
        cleared == [closed EXCEPT !.socketRef = 0, !.status = "closed"]
    IN IF ch.sockets[s].stale THEN closed
       ELSE IF cleared.manualCloseRef THEN [cleared EXCEPT !.manualCloseRef = FALSE]
       ELSE IF unauthorized THEN [cleared EXCEPT !.unauthorizedPending = @ \cup {s}]
       ELSE scheduleReconnect(cleared, ch.sockets[s].shouldConnect, draw)

(* The promise onUnauthorized returned settles: resolved true, resolved false *)
(* or rejected.                                                               *)
UnauthorizedOutcomes == {"true", "false", "rejected"}

unauthorizedSettled(ch, s, outcome, draw) ==
    LET settled == [ch EXCEPT !.unauthorizedPending = @ \ {s}]
    IN IF outcome = "false" THEN settled ELSE triggerReconnect(settled, s, draw)

(* onmessage as it would be if a frame that is no JSON failed the channel *)
onmessageFailing(ch, s, data) ==
    IF ch.sockets[s].stale THEN ch
    ELSE IF data # ""
    THEN LET parsed == JSONparse(data)
         IN IF parsed.threw THEN [ch EXCEPT !.status = "error"]
            ELSE [ch EXCEPT !.lastMessage = parsed.value]
    ELSE [ch EXCEPT !.lastMessage = NoMessage]

(* socket.onmessage of socket s *)
onmessage(ch, s, data) ==
    IF ch.sockets[s].stale THEN ch
    ELSE IF data # ""
    THEN LET parsed == JSONparse(data)
         IN [ch EXCEPT !.lastMessage =
                IF parsed.threw THEN [kind |-> "raw", value |-> data] ELSE parsed.value]
    ELSE [ch EXCEPT !.lastMessage = NoMessage]

(* The reconnect timer's callback *)
reconnectTimerCallback(ch, url, shouldConnect) ==
    connect([ch EXCEPT !.reconnectTimer = NoTimer,
                       !.reconnectDelayRef = Minimum(ch.reconnectTimer.delay * 2, maxDelay)],
            url, shouldConnect)

(* The bridge unmounts: the cleanup of its effect runs, the next bridge starts *)
(* with fresh state and refs; the sockets of the old one stay as they are.     *)
unmountBridge(ch, prev) ==
    LET cleaned == activationCleanup(ch, prev)
    IN [sockets |-> [i \in 1..Len(cleaned.sockets) |->
                        [cleaned.sockets[i] EXCEPT !.stale = TRUE]],
        socketRef |-> 0, reconnectTimer |-> NoTimer, manualCloseRef |-> FALSE,
        reconnectDelayRef |-> baseDelay, unauthorizedPending |-> {}, failures |-> 0,
        status |-> "idle", lastMessage |-> NoMessage, heartbeatTimerRef |-> FALSE]

InitChannel ==
    /\ activeIds = {}
    /\ listeners = 0
    /\ canConnect = TRUE
    /\ accessToken = "tokenA"
    /\ bridge = NoBridge
    /\ sockets = <<>>
    /\ socketRef = 0
    /\ reconnectTimer = NoTimer
    /\ manualCloseRef = FALSE
    /\ reconnectDelayRef = baseDelay
    /\ unauthorizedPending = {}
    /\ failures = 0
    /\ status = "idle"
    /\ lastMessage = NoMessage
    /\ heartbeatTimerRef = FALSE
    /\ channelEvent = NoChannelEvent

pageVars == <<engineVars, last, events, completedSince, backfillRequests, fnVars>>

(* One event of the channel handled: kind, the socket it came from, a detail  *)
(* (close kind, promise outcome, payload), calls of the onMessage handler.     *)
SetChannel(ch, kind, s, detail, calls) ==
    /\ sockets' = ch.sockets
    /\ socketRef' = ch.socketRef
    /\ reconnectTimer' = ch.reconnectTimer
    /\ manualCloseRef' = ch.manualCloseRef
    /\ reconnectDelayRef' = ch.reconnectDelayRef
    /\ unauthorizedPending' = ch.unauthorizedPending
    /\ failures' = ch.failures
    /\ status' = ch.status
    /\ lastMessage' = ch.lastMessage
    /\ heartbeatTimerRef' = ch.heartbeatTimerRef
    /\ channelEvent' = [kind |-> kind, socket |-> s, detail |-> detail,
                        handlerCalls |-> calls]
    /\ UNCHANGED <<pageVars, apiVars>>

(* Whether a step that may call connect() still has a socket to create *)
SocketBudget == Len(sockets) < MaxSockets

(* The bridge rendered with the props of the provider's state, its effect run *)
Rendered(can, token) ==
    [mounted |-> TRUE, url |-> SocketUrl(can, token),
     shouldConnect |-> can /\ SocketUrl(can, token) # NoUrl]

(* resetAll has emptied activeIds, the bridge is still to be unmounted *)
UnmountPending == bridge.mounted /\ Station \notin activeIds

(* subscribe(chargerId, listener): the first one mounts the bridge *)
Subscribe ==
    /\ listeners < MaxListeners
    /\ SocketBudget
    /\ listeners' = listeners + 1
    /\ activeIds' = activeIds \cup {Station}
    /\ bridge' = Rendered(canConnect, accessToken)
    /\ SetChannel(IF bridge.mounted THEN Channel
                  ELSE activationEffect(Channel, bridge, bridge'.url, bridge'.shouldConnect),
                  "subscribe", 0, "", 0)
    /\ UNCHANGED <<canConnect, accessToken>>

(* The function subscribe returned: the listener leaves, activeIds stays *)
Unsubscribe ==
    /\ listeners > 0
    /\ listeners' = listeners - 1
    /\ UNCHANGED <<activeIds, canConnect, accessToken, bridge>>
    /\ SetChannel(Channel, "unsubscribe", 0, "", 0)

(* The access token changes: the address of every bridge changes with it *)
TokenRefreshed ==
    /\ canConnect
    /\ SocketBudget
    /\ \E token \in Tokens \ {accessToken} :
          /\ accessToken' = token
          /\ bridge' = IF bridge.mounted THEN Rendered(canConnect, token) ELSE bridge
          /\ SetChannel(IF bridge.mounted
                        THEN activationEffect(Channel, bridge, bridge'.url,
                                              bridge'.shouldConnect)
                        ELSE Channel,
                        "token", 0, "", 0)
    /\ UNCHANGED <<activeIds, listeners, canConnect>>

(* canConnect turns false: the bridge is rendered without address and its     *)
(* effect disposes the socket; resetAll clears the listeners and activeIds.    *)
Deactivate ==
    /\ canConnect
    /\ canConnect' = FALSE
    /\ activeIds' = {}
    /\ listeners' = 0
    /\ bridge' = IF bridge.mounted THEN Rendered(FALSE, accessToken) ELSE bridge
    /\ SetChannel(IF bridge.mounted
                  THEN activationEffect(Channel, bridge, NoUrl, FALSE)
                  ELSE Channel,
                  "deactivate", 0, "", 0)
    /\ UNCHANGED accessToken

(* The render after resetAll: no bridge for the station any more *)
BridgeUnmounted ==
    /\ UnmountPending
    /\ bridge' = NoBridge
    /\ SetChannel(unmountBridge(Channel, bridge), "unmount", 0, "", 0)
    /\ UNCHANGED <<activeIds, listeners, canConnect, accessToken>>

(* canConnect turns true: a bridge subscribed meanwhile connects *)
Activate ==
    /\ ~canConnect
    /\ ~UnmountPending
    /\ SocketBudget
    /\ canConnect' = TRUE
    /\ bridge' = IF bridge.mounted THEN Rendered(TRUE, accessToken) ELSE bridge
    /\ SetChannel(IF bridge.mounted
                  THEN activationEffect(Channel, bridge, bridge'.url, bridge'.shouldConnect)
                  ELSE Channel,
                  "activate", 0, "", 0)
    /\ UNCHANGED <<activeIds, listeners, accessToken>>

SocketOpened ==
    /\ \E s \in 1..Len(sockets) :
          /\ sockets[s].readyState = "CONNECTING"
          /\ SetChannel(onopen(Channel, s), "open", s, "", 0)
    /\ UNCHANGED <<activeIds, listeners, canConnect, accessToken, bridge>>

(* The transport of a live socket fails or the server closes it *)
TransportClosed ==
    /\ \E s \in 1..Len(sockets), unauthorized \in BOOLEAN, draw \in JitterDraws :
          /\ sockets[s].readyState \in LiveStates
          /\ SetChannel(onclose(Channel, s, unauthorized, draw), "close", s,
                        IF unauthorized THEN "unauthorized" ELSE "transport", 0)
    /\ UNCHANGED <<activeIds, listeners, canConnect, accessToken, bridge>>

(* The close event of a socket close() was called on *)
CloseDelivered ==
    /\ \E s \in 1..Len(sockets), draw \in JitterDraws :
          /\ sockets[s].readyState = "CLOSING"
          /\ SetChannel(onclose(Channel, s, FALSE, draw), "close", s, "disposed", 0)
    /\ UNCHANGED <<activeIds, listeners, canConnect, accessToken, bridge>>

(* The promise of handleUnauthorized settles *)
UnauthorizedResolved ==
    /\ \E s \in unauthorizedPending, outcome \in UnauthorizedOutcomes, draw \in JitterDraws :
          SetChannel(unauthorizedSettled(Channel, s, outcome, draw), "settled", s, outcome, 0)
    /\ UNCHANGED <<activeIds, listeners, canConnect, accessToken, bridge>>

RetryTimerFired ==
    /\ reconnectTimer.pending
    /\ SocketBudget
    /\ SetChannel(reconnectTimerCallback(Channel, bridge.url, bridge.shouldConnect),
                  "timer", 0, "", 0)
    /\ UNCHANGED <<activeIds, listeners, canConnect, accessToken, bridge>>

(* An open socket delivers a frame: onmessage, which calls the onMessage      *)
(* handler of the bridge once.                                                *)
MessageReceived ==
    /\ \E s \in 1..Len(sockets), data \in Payloads :
          /\ sockets[s].readyState = "OPEN"
          /\ SetChannel(onmessage(Channel, s, data), "message", s, data, 1)
    /\ UNCHANGED <<activeIds, listeners, canConnect, accessToken, bridge>>

NextChannel ==
    \/ Subscribe
    \/ Unsubscribe
    \/ TokenRefreshed
    \/ Deactivate
    \/ BridgeUnmounted
    \/ Activate
    \/ SocketOpened
    \/ TransportClosed
    \/ CloseDelivered
    \/ UnauthorizedResolved
    \/ RetryTimerFired
    \/ MessageReceived

----------------------------------------------------------------------------
(* TenantApiClient (part_006, lines 93-207).  request() is an async method:   *)
(* it runs up to its fetch, is resumed by the response, and on a 401 with a   *)
(* refresh token is resumed once more by the refresh handler's promise.  A    *)
(* token set is [access, refresh]; refresh is "" when the field is missing,   *)
(* and NoTokens stands for null.                                              *)

MaxFetches == 3          \* fetch() calls of one request that are told apart

baseUrl == "https://tenant.example"

Paths == {"/api/ocpp-simulator/meter-values/", "/api/ocpp-simulator/sessions/"}

NoTokens == [access |-> "", refresh |-> ""]

TokenSets == [access : Tokens, refresh : {"", "refreshA"}]

(* HTTP answers: the status code and whether the body's detail message reads  *)
(* as an authentication failure (isAuthenticationDetail).                      *)
Responses == {200, 204, 401, 403, 500} \X BOOLEAN

Settled == {"resolved", "rejected"}

NoCall == [pc |-> "idle", target |-> "", authorization |-> "", code |-> 0, error |-> ""]

(* request() up to `await fetch(...)`: the base-url check, the url and the    *)
(* Authorization header taken from this.tokens.                               *)
requestIssued(tk, target) ==
    IF baseUrl = ""
    THEN [pc |-> "rejected", target |-> target, authorization |-> "", code |-> 0,
          error |-> "Tenant base URL is not configured"]
    ELSE [pc |-> "fetching", target |-> target,
          authorization |-> IF tk.access # "" THEN tk.access ELSE "",
          code |-> 0, error |-> ""]

(* The client of a signed-in user, as the auth provider constructs it *)
InitApi ==
    /\ tokens = [access |-> "tokenA", refresh |-> "refreshA"]
    /\ call = NoCall
    /\ fetches = 0
    /\ loggedOut = FALSE

(* A caller invokes request(path) once the call before it has settled *)
ApiRequest ==
    \E target \in Paths :
        /\ call.pc \in Settled \cup {"idle"}
        /\ call' = requestIssued(tokens, target)
        /\ fetches' = 1
        /\ loggedOut' = FALSE
        /\ UNCHANGED <<tokens, pageVars, chanVars>>

(* The response arrives: lines 138-183 up to the next await or the end *)
ApiResponded ==
    \E response \in Responses :
        LET code == response[1]
            authenticationDetail == response[2]
            isUnauthorized == code \in {401, 403}
            ok == code \in {200, 204}
        IN /\ call.pc = "fetching"
           /\ IF isUnauthorized /\ code = 401 /\ tokens.refresh # ""
              THEN /\ call' = [call EXCEPT !.pc = "refreshing", !.code = code]
                   /\ UNCHANGED loggedOut
              ELSE IF isUnauthorized \/ (~ok /\ authenticationDetail)
              THEN /\ call' = [call EXCEPT !.pc = "rejected", !.code = code,
                                           !.error = "Session expired"]
                   /\ loggedOut' = TRUE
              ELSE IF ~ok
              THEN /\ call' = [call EXCEPT !.pc = "rejected", !.code = code,
                                           !.error = "Request failed"]
                   /\ UNCHANGED loggedOut
              ELSE /\ call' = [call EXCEPT !.pc = "resolved", !.code = code]
                   /\ UNCHANGED loggedOut
           /\ UNCHANGED <<tokens, fetches, pageVars, chanVars>>

(* The refresh handler's promise settles: with a token set, with null, or it  *)
(* rejects.  With a token set request() calls itself (lines 143-146).         *)
ApiRefreshed ==
    \E refreshed \in TokenSets \cup {NoTokens}, threw \in BOOLEAN :
        /\ call.pc = "refreshing"
        /\ IF threw
           THEN /\ call' = [call EXCEPT !.pc = "rejected", !.error = "refresh failed"]
                /\ UNCHANGED <<tokens, fetches, loggedOut>>
           ELSE IF refreshed # NoTokens
           THEN /\ tokens' = refreshed
                /\ call' = requestIssued(refreshed, call.target)
                /\ fetches' = Minimum(fetches + 1, MaxFetches)
                /\ UNCHANGED loggedOut
           ELSE /\ call' = [call EXCEPT !.pc = "rejected", !.error = "Session expired"]
                /\ loggedOut' = TRUE
                /\ UNCHANGED <<tokens, fetches>>
        /\ UNCHANGED <<pageVars, chanVars>>

(* updateTokens(tokens): the owner of the client stores a new token set or null *)
UpdateTokens ==
    \E next \in TokenSets \cup {NoTokens} :
        /\ next # tokens
        /\ tokens' = next
        /\ UNCHANGED <<call, fetches, loggedOut, pageVars, chanVars>>

NextApi ==
    \/ ApiRequest
    \/ ApiResponded
    \/ ApiRefreshed
    \/ UpdateTokens

----------------------------------------------------------------------------
(* Steps *)

NoObservation == [kind |-> "init", connectorId |-> 0, time |-> Undef, obs |-> <<>>]

NotComputed == [done |-> FALSE, value |-> <<>>]

(* The page after mount: every map empty (useState / useRef initialisers) *)
InitEngine ==
    /\ meterTimelines = EmptyEngine.tl
    /\ telemetryHistory = EmptyEngine.hist
    /\ sessionsByConnector = EmptyEngine.sess
    /\ frozenConnectors = {}
    /\ telemetryHydrated = FALSE
    /\ telemetrySnapshot = EmptyEngine.snap
    /\ pendingHistoryFetches = {}
    /\ timelineEvents = <<>>
    /\ timelineKeys = {}
    /\ telemetryThrottle = EmptyEngine.throttle
    /\ resetFlow = NoReset
    /\ last = NoObservation
    /\ events = 0
    /\ completedSince = {}
    /\ backfillRequests = [k \in FetchKeys |-> 0]
    /\ InitChannel
    /\ InitApi

Init ==
    /\ InitEngine
    /\ fnIn = <<>>
    /\ fnOut = NotComputed

(* Whether React evaluated the first updater of the handler, and of the       *)
(* snapshot effect that follows it, at the call.  The snapshot session.started *)
(* patches carries no sample, so its effect leaves the history buffer alone.   *)
Deferred == [handler |-> FALSE, effect |-> FALSE]

Schedules(kind) ==
    CASE kind = "session.stopped" -> [handler : BOOLEAN, effect : BOOLEAN]
      [] kind \in {"meter.sample", "session.started", "rest.meterValues"} ->
            [handler : BOOLEAN, effect : {FALSE}]
      [] kind = "rest.detail" -> [handler : {FALSE}, effect : BOOLEAN]
      [] OTHER -> {Deferred}

(* handleSimulatorEvent and the REST effects as one function of the state:    *)
(* the handler, then the render it causes and that render's effects.          *)
(* A back-fill read that returns no rows or fails sets no state, so no render *)
(* follows it; the next render is the one of the clock (setNowTs, each second).*)
Deliver(st, kind, obs, eager) ==
    CASE kind = "meter.sample" ->
            backfillEffect(handleMeterSample(st, obs, eager.handler))
      [] kind = "session.started" ->
            backfillEffect(handleSessionStarted(st, obs, eager.handler, eager.effect))
      [] kind = "session.stopped" ->
            backfillEffect(handleSessionStopped(st, obs, eager.handler, eager.effect))
      [] kind = "rest.sessions" -> backfillEffect(handleRestSessions(st, obs))
      [] kind = "rest.meterValues" ->
            backfillEffect(handleMeterValues(st, obs, eager.handler))
      [] kind = "rest.detail" ->
            backfillEffect(handleDetailFetched(st,
                [d \in Connectors |-> IF d = obs[1] THEN obs[2] ELSE NoSnapshot],
                [d \in Connectors |-> IF d = obs[1] THEN obs[3] ELSE NoHistory],
                eager.effect))
      [] kind = "rest.backfill" ->
            IF Len(obs[2]) = 0 THEN hydrateConnectorHistoryResolve(st, obs[1], obs[2])
            ELSE backfillEffect(hydrateConnectorHistoryResolve(st, obs[1], obs[2]))
      [] kind = "clock.tick" -> backfillEffect(st)
      [] kind = "connector.status" -> handleConnectorStatus(st, obs)
      [] kind = "log.entry" -> handleLogEntry(st, obs)
      [] kind = "simulator.state" -> backfillEffect(handleSimulatorState(st, obs))
      [] kind = "rest.cmsSessions" -> cmsSessionsEffect(st, obs)
      [] kind = "ui.reset" -> handleResetRequested(st, obs)
      [] kind = "timer.reset" -> handleResetTimer(st)
      [] kind = "route.simulator" -> simulatorChangedEffect(st)

(* The back-fill reads a step issued: the fetch keys it added to               *)
(* pendingHistoryFetchesRef, the key of a read that returned in this step      *)
(* counting as absent before.                                                  *)
IssuedBy(kind, obs, pendingAfter) ==
    pendingAfter \ (pendingHistoryFetches \ (IF kind = "rest.backfill" THEN {obs[1]} ELSE {}))

(* One observation handled: `cost` frames or rows of the budget, `closes`     *)
(* when the handler itself moved the runtime to completed.                    *)
Step(kind, c, time, obs, cost, closes) ==
    /\ events + cost <= MaxEvents
    /\ events' = events + cost
    /\ \E eager \in Schedules(kind) :
          /\ last' = [kind |-> kind, connectorId |-> c, time |-> time, obs |-> obs]
          /\ \E n \in {Deliver(Engine, kind, obs, eager)} :
                /\ meterTimelines' = n.tl
                /\ telemetryHistory' = n.hist
                /\ sessionsByConnector' = n.sess
                /\ frozenConnectors' = n.frozen
                /\ telemetryHydrated' = n.hydrated
                /\ telemetrySnapshot' = n.snap
                /\ pendingHistoryFetches' = n.pending
                /\ timelineEvents' = n.log
                /\ timelineKeys' = n.keys
                /\ telemetryThrottle' = n.throttle
                /\ resetFlow' = n.reset
                /\ backfillRequests' =
                      [k \in FetchKeys |->
                          IF k \in IssuedBy(kind, obs, n.pending)
                          THEN backfillRequests[k] + 1 ELSE backfillRequests[k]]
                /\ completedSince' =
                      IF kind = "session.started" THEN completedSince \ {c}
                      ELSE IF n.sess = EmptyEngine.sess THEN {}
                      ELSE completedSince
                              \cup {d \in Connectors : n.sess[d].state = "completed"}
                              \cup (IF closes THEN {c} ELSE {})
    /\ UNCHANGED <<fnVars, chanVars, apiVars>>

MeterSample(frames) ==
    \E f \in frames :
        /\ f.kind = "meter.sample"
        /\ Step("meter.sample", f.connectorId, f.timestamp, f, 1, FALSE)

SessionStarted(frames) ==
    \E f \in frames :
        /\ f.kind = "session.started"
        /\ Step("session.started", f.connectorId, f.timestamp, f, 1, FALSE)

SessionStopped(frames) ==
    \E f \in frames :
        /\ f.kind = "session.stopped"
        /\ Step("session.stopped", f.connectorId, f.timestamp, f, 1,
                /\ f.connectorId \in Connectors
                /\ SessionStoppedRuntime(sessionsByConnector[f.connectorId], f, NoSample).state
                      = "completed")

RestSessions(rows) ==
    \E snapshots \in Batches(rows) :
        /\ Len(snapshots) > 0
        /\ Step("rest.sessions", snapshots[Len(snapshots)].connectorId,
                RowEventTime(snapshots[Len(snapshots)], NoRuntime), snapshots,
                Len(snapshots), FALSE)

RestMeterValues(rows) ==
    \E results \in Batches(rows) :
        /\ Len(results) > 0
        /\ Step("rest.meterValues", results[1].connectorId, results[1].timestamp,
                results, Len(results), FALSE)

DetailFetched(snapshots, histories) ==
    \E c \in Connectors, snapshot \in snapshots \cup {NoSnapshot},
       history \in histories \cup {NoHistory} :
        /\ snapshot.present \/ history.present
        /\ Step("rest.detail", c, Undef, <<c, snapshot, history>>,
                1 + Len(history.samples), FALSE)

BackfillResolved(rows) ==
    \E fetchKey \in pendingHistoryFetches, results \in Batches(rows) \cup {<<>>} :
        /\ fetchKey[2] # NoTx
        /\ Step("rest.backfill", fetchKey[1], Undef, <<fetchKey, results>>,
                1 + Len(results), FALSE)

ConnectorStatus(frames) ==
    \E f \in frames :
        /\ f.kind = "connector.status"
        /\ Step("connector.status", f.connectorId, f.timestamp, f, 1, FALSE)

LogEntry(frames) ==
    \E f \in frames :
        /\ f.kind = "log.entry"
        /\ Step("log.entry", 0, f.timestamp, f, 1, FALSE)

SimulatorState(frames) ==
    \E f \in frames :
        /\ f.kind = "simulator.state"
        /\ Step("simulator.state", 0, f.timestamp, f, 1, FALSE)

CmsSessionsFetched(rows) ==
    \E sessions \in Batches(rows) :
        /\ Len(sessions) > 0
        /\ Step("rest.cmsSessions", sessions[1].connectorId, sessions[1].start_time,
                sessions, Len(sessions), FALSE)

ResetRequested(types) ==
    \E type \in types :
        /\ resetFlow = NoReset
        /\ Step("ui.reset", 0, Undef, type, 1, FALSE)

ResetTimer ==
    /\ ResetTimerDue(Engine)
    /\ Step("timer.reset", 0, Undef, <<>>, 1, FALSE)

SimulatorChanged ==
    /\ events > 0
    /\ Step("route.simulator", 0, Undef, <<>>, 1, FALSE)

(* The one-second clock: setNowTs re-renders the page, connectorsSummary is    *)
(* recomputed and the back-fill effect runs.  A tick that issues no read       *)
(* changes nothing that is modelled.                                           *)
ClockTick ==
    /\ backfillEffect(Engine).pending # pendingHistoryFetches
    /\ Step("clock.tick", 0, Undef, <<>>, 1, FALSE)

Next ==
    \/ ClockTick
    \/ MeterSample(MeterFrames)
    \/ SessionStarted(StartFrames)
    \/ SessionStopped(StopFrames)
    \/ RestSessions(SessionRows)
    \/ RestMeterValues(MeterRows)
    \/ DetailFetched(SnapshotInputs, HistoryInputs)
    \/ BackfillResolved(MeterRows)

Spec == Init /\ [][Next]_vars

----------------------------------------------------------------------------
(* The live series under push meter.sample frames alone *)

SampleRegisters == {0, 300, 500, 900}

SampleFrames ==
    {Frame("meter.sample", c, ts, v, Undef, Undef, NoTx) :
        c \in Connectors, ts \in Times, v \in SampleRegisters}

NextSamples == MeterSample(SampleFrames)

SpecSamples == Init /\ [][NextSamples]_vars

(* The live series under the frames and rows that carry a register: push      *)
(* meter.sample, session.stopped whose meterStopWh is below or above the      *)
(* registers sampled before it, and the REST meter-value rows.                *)
EnergyStopFrames ==
    {Frame("session.stopped", c, T3, v, Undef, Undef, "TX1") :
        c \in Connectors, v \in {300, 900}}

NextEnergy ==
    \/ MeterSample(SampleFrames)
    \/ SessionStopped(EnergyStopFrames)
    \/ RestMeterValues(MeterRows)

SpecEnergy == Init /\ [][NextEnergy]_vars

(* The channel of one station under subscriptions, token changes, transport   *)
(* events, timers and deactivation.                                           *)
SpecChannel == Init /\ [][NextChannel]_vars

(* The channel of an authenticated session: frames arriving on whatever       *)
(* sockets subscriptions, token changes, transport closes and retries leave.   *)
NextFrames ==
    \/ Subscribe
    \/ TokenRefreshed
    \/ SocketOpened
    \/ TransportClosed
    \/ CloseDelivered
    \/ RetryTimerFired
    \/ MessageReceived

SpecFrames == Init /\ [][NextFrames]_vars

(* The API client under requests, answers of any status, refresh outcomes and *)
(* token updates.  Every fetch is answered and every refresh promise settles: *)
(* the server and the refresh handler are fair.                               *)
SpecApi == Init /\ [][NextApi]_vars

SpecApiFair == SpecApi /\ WF_vars(ApiResponded) /\ WF_vars(ApiRefreshed)

----------------------------------------------------------------------------
(* The timeline log: the page with a log of log.entry events already recorded  *)
(* (none, or as many as the limit), then frames of every kind that writes it,   *)
(* with valid and invalid connector ids, and the resets.                       *)

HalfCooldownMs == 1000  \* spacing of the meter samples sent to the timeline

InvalidConnectorIds == {0, Undef}

TimelineMeterFrames ==
    {Frame("meter.sample", c, T1 + k * HalfCooldownMs, 500, Undef, Undef, NoTx) :
        c \in Connectors, k \in 0..1}
        \cup {Frame("meter.sample", Undef, T1, 500, Undef, Undef, NoTx)}

TimelineStartFrames ==
    {Frame("session.started", c, T1, Undef, Undef, Undef, "TX1") : c \in Connectors \cup {0}}

TimelineStopFrames ==
    {Frame("session.stopped", c, T2, 500, Undef, Undef, "TX1") : c \in Connectors}

StatusFrames ==
    {StatusFrame(c, T1, "FAULTED", "GroundFailure", "V1") : c \in Connectors}
        \cup {StatusFrame(c, T1, "AVAILABLE", "NoError", "") : c \in InvalidConnectorIds}

LogFrames ==
    {LogFrame("info", "m1", T1), LogFrame("error", "m1", T1), LogFrame("warning", "m1", T1),
     LogFrame("error", "boot", 1)}

StateFrames == {StateFrame("available", connected, T1) : connected \in {"true", "false"}}

ResetTypes == {"Soft", "Hard"}

CmsRows == {CmsRow(c, "TX1", T1, endTime) : c \in Connectors, endTime \in {Undef, T2}}

(* The timeline entry of the error log.entry "boot" stamped k *)
BootEntry(k) ==
    TimelineEntry(TimelineKey("log", 0, "boot", k, "", Undef), "log", k, "error")

PrefilledLog(n) == [i \in 1..n |-> BootEntry(n + 1 - i)]

InitTimeline ==
    /\ meterTimelines = EmptyEngine.tl
    /\ telemetryHistory = EmptyEngine.hist
    /\ sessionsByConnector = EmptyEngine.sess
    /\ frozenConnectors = {}
    /\ telemetryHydrated = FALSE
    /\ telemetrySnapshot = EmptyEngine.snap
    /\ pendingHistoryFetches = {}
    /\ timelineEvents \in
          {PrefilledLog(n) : n \in {0, TIMELINE_EVENT_LIMIT}}
    /\ timelineKeys = KeysOf(timelineEvents)
    /\ telemetryThrottle = EmptyEngine.throttle
    /\ resetFlow = NoReset
    /\ last = NoObservation
    /\ events = 0
    /\ completedSince = {}
    /\ backfillRequests = [k \in FetchKeys |-> 0]
    /\ InitChannel
    /\ InitApi
    /\ fnIn = <<>>
    /\ fnOut = NotComputed

NextTimeline ==
    \/ MeterSample(TimelineMeterFrames)
    \/ SessionStarted(TimelineStartFrames)
    \/ SessionStopped(TimelineStopFrames)
    \/ ConnectorStatus(StatusFrames)
    \/ LogEntry(LogFrames)
    \/ SimulatorState(StateFrames)
    \/ CmsSessionsFetched(CmsRows)
    \/ ResetRequested(ResetTypes)
    \/ ResetTimer
    \/ SimulatorChanged

SpecTimeline == InitTimeline /\ [][NextTimeline]_vars

----------------------------------------------------------------------------
(* appendSample and trimWindow as functions of their arguments *)

MaxLen == 3             \* longest series handed to appendSample
TrimSmall == 20         \* short series handed to trimWindow are 0..TrimSmall long

PureSamples ==
    {normalizeSample(RawSampleInput(ts, v, Undef, Undef, NoTx), NoSample) :
        ts \in Times, v \in {300, 500}}

SeriesUpTo(n) == UNION {[1..k -> PureSamples] : k \in 0..n}

InitAppend ==
    /\ InitEngine
    /\ fnIn \in [samples : SeriesUpTo(MaxLen), sample : PureSamples]
    /\ fnOut = NotComputed

ApplyAppend ==
    /\ ~fnOut.done
    /\ fnOut' = [done |-> TRUE, value |-> appendSample(fnIn.samples, fnIn.sample)]
    /\ UNCHANGED <<engineVars, last, events, completedSince, backfillRequests, fnIn, chanVars,
                   apiVars>>

SpecAppend == InitAppend /\ [][ApplyAppend]_vars

(* Series of n samples `gap` milliseconds apart: with 400 ms every sample of   *)
(* the longest series is inside the window, with 300000 ms only the last three *)
TrimGaps == {400, 1000, 300000}

TrimLengths ==
    (0..TrimSmall) \cup ((MAX_POINTS - 1)..(MAX_POINTS + 1))
        \cup ((2 * MAX_POINTS - 1)..(2 * MAX_POINTS + 1))

MakeSeries(n, gap) ==
    [i \in 1..n |-> [timestamp |-> i * gap, valueWh |-> i, energyWh |-> i,
                     deltaWh |-> Undef, transactionId |-> NoTx]]

InitTrim ==
    /\ InitEngine
    /\ fnIn \in {MakeSeries(n, gap) : n \in TrimLengths, gap \in TrimGaps}
    /\ fnOut = NotComputed

ApplyTrim ==
    /\ ~fnOut.done
    /\ fnOut' = [done |-> TRUE, value |-> trimWindow(fnIn, TELEMETRY_WINDOW_MS)]
    /\ UNCHANGED <<engineVars, last, events, completedSince, backfillRequests, fnIn, chanVars,
                   apiVars>>

SpecTrim == InitTrim /\ [][ApplyTrim]_vars

----------------------------------------------------------------------------
(* Properties *)

SortedByTimestamp(samples) ==
    \A i \in 1..(Len(samples) - 1) : samples[i].timestamp <= samples[i + 1].timestamp

StrictlySortedByTimestamp(samples) ==
    \A i \in 1..(Len(samples) - 1) : samples[i].timestamp < samples[i + 1].timestamp

CountAt(samples, ts) == Cardinality({i \in 1..Len(samples) : samples[i].timestamp = ts})

(* C1: whatever the order in which meter samples are delivered, each           *)
(* connector's live series read in timestamp order has a non-decreasing         *)
(* register valueWh.                                                           *)
MonotoneRegister ==
    \A c \in Connectors :
        LET ordered == SortByTimestamp(meterTimelines[c].samples)
        IN \A i \in 1..(Len(ordered) - 1) : ordered[i].valueWh <= ordered[i + 1].valueWh

(* C2: in every reachable state each connector's live series is sorted by      *)
(* timestamp and holds no two samples with the same timestamp.                 *)
SeriesSortedUnique ==
    \A c \in Connectors : StrictlySortedByTimestamp(meterTimelines[c].samples)

TrimWindowBounds ==
    (fnOut.done /\ Len(fnIn) > 0) =>
        LET out == fnOut.value
            cutoff == fnIn[Len(fnIn)].timestamp - TELEMETRY_WINDOW_MS
            InRange(s) == s.timestamp >= cutoff
            range == SelectSeq(fnIn, InRange)
        IN /\ \A i \in 1..Len(out) : out[i].timestamp >= cutoff
           /\ Len(out) > 0
           /\ out[1] = range[1]
           /\ out[Len(out)] = range[Len(range)]
           /\ Len(out) <= MAX_POINTS

----------------------------------------------------------------------------
(* Observations as arguments of Deliver *)

SessionObservations ==
    {<<"session.started", f, eager>> :
        f \in StartFrames, eager \in Schedules("session.started")}
        \cup {<<"session.stopped", f, eager>> :
                f \in StopFrames, eager \in Schedules("session.stopped")}
        \cup {<<"rest.sessions", <<row>>, Deferred>> : row \in SessionRows}

MergeObservations ==
    SessionObservations
        \cup {<<"meter.sample", f, eager>> :
                f \in MeterFrames, eager \in Schedules("meter.sample")}

ConnectorOf(o) == IF o[1] = "rest.sessions" THEN o[2][1].connectorId ELSE o[2].connectorId

DeliverObservation(st, o) == Deliver(st, o[1], o[2], o[3])

(* The event time of a REST row as the recency rule reads it *)
ClaimEventTime(row) ==
    Coalesce(row.updated_at,
        Coalesce(row.completed_at, Coalesce(row.started_at, row.created_at)))

RecencyRows ==
    {SessionRow(c, state, startedAt, completedAt, updatedAt, createdAt, tx, 0, Undef) :
        c \in Connectors, state \in {"charging", "completed"},
        startedAt \in {Undef, T1, T2, T3}, completedAt \in {Undef, T2},
        updatedAt \in {Undef, T1}, createdAt \in {Undef, T1}, tx \in TxIds}

PushRespectsRecency ==
    \A f \in StartFrames \cup StopFrames :
        LET existing == sessionsByConnector[f.connectorId]
        IN (existing.updatedAt # Undef /\ f.timestamp < existing.updatedAt)
           => \A eager \in Schedules(f.kind) :
                 Deliver(Engine, f.kind, f, eager).sess[f.connectorId] = existing

SameMerge(a, b) == a.tl = b.tl /\ a.sess = b.sess /\ a.frozen = b.frozen

(* C7: delivering an already-applied identical observation a second time,      *)
(* immediately or after another observation, leaves runtime, frozen flag and   *)
(* sample series equal to what the single delivery produced.                   *)
IdempotentDelivery ==
    \A o \in MergeObservations :
        LET once == DeliverObservation(Engine, o)
        IN /\ SameMerge(DeliverObservation(once, o), once)
           /\ \A p \in MergeObservations :
                 LET later == DeliverObservation(once, p)
                 IN SameMerge(DeliverObservation(later, o), later)

(* C8: for any two session observations of one connector, applying them in    *)
(* either order produces the same runtime record.                              *)
SessionMergeCommutes ==
    \A o1, o2 \in SessionObservations :
        ConnectorOf(o1) = ConnectorOf(o2) =>
            DeliverObservation(DeliverObservation(Engine, o1), o2).sess[ConnectorOf(o1)]
                = DeliverObservation(DeliverObservation(Engine, o2), o1).sess[ConnectorOf(o1)]

TerminalStates == {"completed", "errored", "timeout"}

(* A session start observation for a different or newer transaction than the  *)
(* runtime holds: a push session.started, or a REST row of an open session.    *)
SupersedingStart(o, runtime) ==
    \/ /\ o.kind = "session.started"
       /\ \/ o.obs.transactionId # runtime.transactionId
          \/ runtime.startedAt = Undef
          \/ o.obs.timestamp > runtime.startedAt
    \/ /\ o.kind = "rest.sessions"
       /\ \E i \in 1..Len(o.obs) :
             /\ o.obs[i].state \in {"charging", "pending"}
             /\ o.obs[i].completed_at = Undef
             /\ \/ o.obs[i].cms_transaction_key # runtime.transactionId
                \/ runtime.startedAt = Undef
                \/ o.obs[i].started_at > runtime.startedAt

(* C9: a runtime in state completed, errored or timeout keeps that state under *)
(* every observation until a session start observation for a different or      *)
(* newer transaction resets it to a fresh charging (or pending) record.         *)
TerminalUntilSuperseded ==
    [][\A c \in Connectors :
          sessionsByConnector[c].state \in TerminalStates =>
             \/ sessionsByConnector'[c].state = sessionsByConnector[c].state
             \/ /\ last'.connectorId = c
                /\ SupersedingStart(last', sessionsByConnector[c])
                /\ sessionsByConnector'[c].state \in {"charging", "pending"}]_vars

(* C10: from the moment a connector's runtime reached completed until the next *)
(* session.started of that connector, every push meter.sample leaves its live  *)
(* window, history buffer and runtime unchanged; session.started clears the    *)
(* frozen flag.                                                                *)
FrozenUntilStarted ==
    [][/\ \A c \in completedSince :
            (events' = events + 1 /\ last'.kind = "meter.sample" /\ last'.connectorId = c)
            => /\ meterTimelines'[c] = meterTimelines[c]
               /\ telemetryHistory'[c] = telemetryHistory[c]
               /\ sessionsByConnector'[c] = sessionsByConnector[c]
       /\ (events' = events + 1 /\ last'.kind = "session.started")
            => last'.connectorId \notin frozenConnectors']_vars

(* C11: for each connector and closed transaction exactly one back-fill read   *)
(* is issued: no fetch key is read more than once, and a runtime that is       *)
(* completed for a known transaction has had its read issued, whatever the     *)
(* read returned.                                                              *)
OneBackfillPerClosedTransaction ==
    /\ \A k \in FetchKeys : backfillRequests[k] <= 1
    /\ \A c \in Connectors :
          LET runtime == sessionsByConnector[c]
          IN (runtime.state = "completed" /\ runtime.transactionId # NoTx)
             => backfillRequests[<<c, runtime.transactionId>>] = 1

----------------------------------------------------------------------------
(* connectorsSummary: the meter pair shown for a connector.  cms is the CMS    *)
(* charging session the index resolves for the connector, NoCmsSession when    *)
(* there is none; its meter_stop may be null.                                  *)

NoCmsSession == [meter_start |-> Undef, meter_stop |-> Undef]

CmsSessions ==
    {[meter_start |-> a, meter_stop |-> b] : a \in {0, 500}, b \in {Undef, 500, 900}}

MaxOf(values) == CHOOSE v \in values : \A w \in values : w <= v

ResolveMeterPair(runtime, timeline, cms) ==
    LET liveSamples == timeline.samples
        samples == IF Len(liveSamples) > 0 THEN liveSamples
                   ELSE IF runtime.finalSample # NoSample THEN <<runtime.finalSample>>
                   ELSE <<>>
        firstWh == IF Len(samples) > 0 THEN samples[1].valueWh ELSE Undef
        latestSampleWh == Last(samples).valueWh
        runtimeMeterStartWh == Coalesce(runtime.meterStartWh, firstWh)
        resolvedStartWh ==
            Coalesce(cms.meter_start,
                Coalesce(runtimeMeterStartWh,
                    Coalesce(firstWh,
                        Coalesce(runtime.meterStopWh, Coalesce(cms.meter_stop, 0)))))
        stopCandidates ==
            {runtime.meterStopWh, cms.meter_stop, latestSampleWh, resolvedStartWh} \ {Undef}
        meterStopWh == MaxOf(stopCandidates)
        meterStartWh == IF resolvedStartWh < meterStopWh THEN resolvedStartWh ELSE meterStopWh
        energyWh == IF meterStopWh - meterStartWh > 0 THEN meterStopWh - meterStartWh ELSE 0
    IN [meterStartWh |-> meterStartWh, meterStopWh |-> meterStopWh, energyWh |-> energyWh,
        latestSampleWh |-> latestSampleWh]

(* C12: in every reachable state the resolved meter-stop of a connector is the *)
(* maximum of the stop candidates observed (runtime stop register, CMS stop    *)
(* register, latest sample register), the resolved meter-start is at most the  *)
(* resolved meter-stop, and the delivered energy is not negative.              *)
ResolvedMeterPair ==
    \A c \in Connectors, cms \in CmsSessions \cup {NoCmsSession} :
        LET runtime == sessionsByConnector[c]
            resolved == ResolveMeterPair(runtime, meterTimelines[c], cms)
            observed == {runtime.meterStopWh, cms.meter_stop, resolved.latestSampleWh}
                            \ {Undef}
        IN /\ observed # {} => resolved.meterStopWh = MaxOf(observed)
           /\ resolved.meterStartWh <= resolved.meterStopWh
           /\ resolved.energyWh >= 0

(* C13: after a push meter.sample, session.started or session.stopped frame,  *)
(* or a REST session row, with a valid connector id, the runtime map holds a   *)
(* record for that connector.                                                  *)
ObservationCreatesRuntime ==
    /\ (last.kind \in {"meter.sample", "session.started", "session.stopped"}
            /\ last.connectorId \in Connectors)
          => sessionsByConnector[last.connectorId] # NoRuntime
    /\ last.kind = "rest.sessions"
          => \A i \in 1..Len(last.obs) :
                last.obs[i].connectorId \in Connectors
                    => sessionsByConnector[last.obs[i].connectorId] # NoRuntime

----------------------------------------------------------------------------
(* The timeline log *)

(* C14: a meter.sample, session.started, session.stopped or connector.status   *)
(* frame without a valid connector id (missing, non-numeric, <= 0) leaves the  *)
(* series map, history buffer, runtime map, frozen set, throttle map and       *)
(* timeline log unchanged.                                                     *)
InvalidConnectorFrameDropped ==
    [][(/\ events' = events + 1
        /\ last'.kind \in {"meter.sample", "session.started", "session.stopped",
                           "connector.status"}
        /\ last'.connectorId \in InvalidConnectorIds)
       => UNCHANGED <<meterTimelines, telemetryHistory, sessionsByConnector, frozenConnectors,
                      telemetryThrottle, timelineEvents>>]_vars

(* Entries that could be recorded under the keys the log retains *)
RetainedKeyEntries ==
    {TimelineEntry(key, kind, T3, detail) :
        key \in KeysOf(timelineEvents), kind \in {"log"}, detail \in {"warning"}}

(* C15: no two retained timeline events share a dedupeKey, and recording an    *)
(* event whose key is retained leaves the log unchanged.                       *)
TimelineRecordsOncePerKey ==
    /\ Cardinality(KeysOf(timelineEvents)) = Len(timelineEvents)
    /\ LET page == Engine
       IN \A entry \in RetainedKeyEntries :
             pushTimelineEvent(page, entry).log = timelineEvents

(* A warning log.entry handled while the log retains the error entry of the    *)
(* same key: the entry first recorded is the one retained.                     *)
DuplicateKeyDropped ==
    /\ last.kind = "log.entry"
    /\ last.obs.level = "warning"
    /\ \E i \in 1..Len(timelineEvents) :
          /\ timelineEvents[i].dedupeKey =
                TimelineKey("log", 0, last.obs.message, last.obs.timestamp, "", Undef)
          /\ timelineEvents[i].detail = "error"

(* Entries under keys the log held at some time and does not retain *)
ReleasedKeyEntries ==
    LET retained == KeysOf(timelineEvents)
    IN {e \in {BootEntry(k) : k \in 1..TIMELINE_EVENT_LIMIT} : e.dedupeKey \notin retained}

MeterEventsSpaced ==
    \A i, j \in 1..Len(timelineEvents) :
        (/\ i # j
         /\ timelineEvents[i].kind = "meter"
         /\ timelineEvents[j].kind = "meter"
         /\ timelineEvents[i].dedupeKey.connectorId = timelineEvents[j].dedupeKey.connectorId
         /\ timelineEvents[i].timestamp >= timelineEvents[j].timestamp)
        => timelineEvents[i].timestamp - timelineEvents[j].timestamp
              >= TELEMETRY_EVENT_COOLDOWN_MS


----------------------------------------------------------------------------
(* The reconnecting channel *)

LiveSockets == {s \in 1..Len(sockets) : sockets[s].readyState \in LiveStates}

(* C18: for one station key at most one transport socket in state CONNECTING   *)
(* or OPEN exists in every reachable state, across subscribers, activation,    *)
(* address changes, asynchronous close events, retry timers and deactivation.  *)
AtMostOneLiveSocket == Cardinality(LiveSockets) <= 1

(* C19: whenever the bridge's activation effect has run with the should-connect *)
(* flag true and a non-null address, a socket in CONNECTING or OPEN exists or  *)
(* a reconnect timer is pending.                                               *)
ConnectedOrRetrying ==
    (bridge.mounted /\ bridge.shouldConnect /\ bridge.url # NoUrl)
        => (LiveSockets # {} \/ reconnectTimer.pending)

(* C20: the reconnect delay scheduled on the Nth consecutive failure since the *)
(* last successful open lies within 35% of min(B * 2^(N-1), C), B the base     *)
(* delay and C the ceiling.                                                    *)
BackoffWithinJitterBand ==
    (reconnectTimer.pending /\ failures >= 1) =>
        LET nominal == Minimum(baseDelay * 2 ^ (failures - 1), maxDelay)
        IN /\ reconnectTimer.delay * 100 >= nominal * (100 - JITTER_RATIO)
           /\ reconnectTimer.delay * 100 <= nominal * (100 + JITTER_RATIO)


(* The bridge is mounted without should-connect flag or without address *)
Deactivated == bridge.mounted /\ ~(bridge.shouldConnect /\ bridge.url # NoUrl)

(* C21: an unauthorized close of a socket of the mounted bridge hands over to  *)
(* the unauthorized callback and schedules nothing itself; when the callback's *)
(* result reports success a reconnect is scheduled; when it reports failure or *)
(* declines, no reconnect is scheduled and no connection is attempted.         *)
AuthorizationFailureHandled ==
    [][LET s == channelEvent'.socket
       IN /\ (/\ channelEvent'.kind = "close"
              /\ channelEvent'.detail = "unauthorized"
              /\ sockets' # sockets
              /\ ~sockets[s].stale
              /\ ~manualCloseRef)
                => (s \in unauthorizedPending' /\ reconnectTimer' = reconnectTimer)
          /\ (/\ channelEvent'.kind = "settled"
              /\ unauthorizedPending' # unauthorizedPending
              /\ channelEvent'.detail = "true"
              /\ ~manualCloseRef)
                => reconnectTimer'.pending
          /\ (/\ channelEvent'.kind = "settled"
              /\ unauthorizedPending' # unauthorizedPending
              /\ channelEvent'.detail \in {"false", "rejected"})
                => (reconnectTimer' = reconnectTimer /\ sockets' = sockets)]_vars

(* C22: while the bridge is deactivated the status the channel exposes is idle *)
DeactivatedIsIdle == Deactivated => status = "idle"

(* C23: while the bridge is deactivated no reconnect timer and no heartbeat    *)
(* timer is pending, and no step creates a socket.                             *)
DeactivatedHasNoTimers ==
    /\ [](Deactivated => (~reconnectTimer.pending /\ ~heartbeatTimerRef))
    /\ [][(Deactivated /\ Deactivated') => Len(sockets') = Len(sockets)]_vars

(* What lastMessage holds after a frame with the given payload *)
ExpectedMessage(data) ==
    CASE data = "" -> NoMessage
      [] data = "null" -> NoMessage
      [] data = "pong" -> [kind |-> "raw", value |-> "pong"]
      [] OTHER -> [kind |-> "json", value |-> "object:type=heartbeat"]

(* C24: a frame received on a socket of the mounted bridge sets lastMessage to *)
(* the parsed JSON value, to the raw payload when it is no JSON, to null when  *)
(* it is empty, calls the onMessage handler once, and leaves status, sockets,  *)
(* reconnect timer and backoff as they were.                                   *)
FrameLeavesConnectionState ==
    [][(/\ channelEvent'.kind = "message"
        /\ channelEvent' # channelEvent
        /\ ~sockets[channelEvent'.socket].stale)
          => /\ lastMessage' = ExpectedMessage(channelEvent'.detail)
             /\ channelEvent'.handlerCalls = 1
             /\ status' = status
             /\ sockets' = sockets
             /\ socketRef' = socketRef
             /\ reconnectTimer' = reconnectTimer
             /\ reconnectDelayRef' = reconnectDelayRef
             /\ manualCloseRef' = manualCloseRef]_vars

(* A frame that is no JSON was handled on the open channel *)
MalformedFrameSurfaced ==
    /\ channelEvent.kind = "message"
    /\ channelEvent.detail = "pong"
    /\ lastMessage = [kind |-> "raw", value |-> "pong"]
    /\ status = "open"
    /\ ~reconnectTimer.pending


----------------------------------------------------------------------------
(* The lifecycle of a connector runtime *)

LifecycleStates ==
    {"idle", "pending", "authorized", "charging", "finishing", "completed", "errored",
     "timeout"}

(* C25: the lifecycle state of every connector runtime is one of idle,         *)
(* pending, authorized, charging, finishing, completed, errored, timeout.      *)
RuntimeStateIsLifecycle ==
    \A c \in Connectors :
        sessionsByConnector[c] # NoRuntime
            => sessionsByConnector[c].state \in LifecycleStates


----------------------------------------------------------------------------
(* C26: a back-fill read whose connector got a session.started frame of        *)
(* another transaction while the read was in flight is discarded: resolving    *)
(* hydrateConnectorHistory(c, tx) after that frame leaves c's live series, its *)
(* transaction id and its history buffer as the frame left them.               *)
StaleBackfillDiscarded ==
    \A fetchKey \in pendingHistoryFetches :
        \A f \in {g \in StartFrames : g.connectorId = fetchKey[1]
                                        /\ g.transactionId # fetchKey[2]} :
            \A eager \in Schedules("session.started"), results \in Batches(MeterRows) :
                LET started == Deliver(Engine, "session.started", f, eager)
                    resolved == hydrateConnectorHistoryResolve(started, fetchKey, results)
                    c == fetchKey[1]
                IN fetchKey \in started.pending
                     => /\ resolved.tl[c] = started.tl[c]
                        /\ resolved.hist[c] = started.hist[c]

----------------------------------------------------------------------------
(* C27: displayed energy never goes backwards.  In every connector's live      *)
(* series each sample's energy equals its (clamped) register, energyKwh =      *)
(* valueWh / 1000, and read in timestamp order the energy is non-decreasing.   *)
EnergyNeverGoesBack ==
    \A c \in Connectors :
        LET ordered == SortByTimestamp(meterTimelines[c].samples)
        IN /\ \A i \in 1..Len(ordered) : ordered[i].energyWh = ordered[i].valueWh
           /\ \A i \in 1..(Len(ordered) - 1) : ordered[i].energyWh <= ordered[i + 1].energyWh

----------------------------------------------------------------------------
(* C28: a session.stopped frame whose transaction id differs from the          *)
(* transaction id of the connector's current runtime is ignored as a whole:    *)
(* the connector's runtime, its frozen flag and its live series are unchanged. *)
ForeignStopIgnored ==
    [][(/\ last'.kind = "session.stopped"
        /\ events' = events + 1
        /\ last'.connectorId \in Connectors
        /\ sessionsByConnector[last'.connectorId] # NoRuntime
        /\ sessionsByConnector[last'.connectorId].transactionId # NoTx
        /\ last'.obs.transactionId # NoTx
        /\ last'.obs.transactionId # sessionsByConnector[last'.connectorId].transactionId)
       => LET c == last'.connectorId
          IN /\ sessionsByConnector'[c] = sessionsByConnector[c]
             /\ (c \in frozenConnectors') = (c \in frozenConnectors)
             /\ meterTimelines'[c] = meterTimelines[c]]_vars

----------------------------------------------------------------------------
(* C29: during a reset flow the page is wiped by a simulator.state frame with  *)
(* connected = true only after a frame with connected = false was handled in   *)
(* stage requested, that is, only from the stage rebooting such a frame leads  *)
(* to (a Soft reset enters rebooting without one); a frame handled in stage    *)
(* reconnected wipes nothing, which makes the wipe happen once per flow.       *)
ResetWipesAfterReboot ==
    [][(/\ last'.kind = "simulator.state"
        /\ events' = events + 1
        /\ last'.obs.connected = "true"
        /\ resetFlow # NoReset
        /\ resetFlow.stage # "reconnected")
       => resetFlow.stage = "rebooting" /\ resetFlow.type # "Soft"]_vars

----------------------------------------------------------------------------
(* C30: TenantApiClient.request terminates for every server behaviour: a call  *)
(* that is waiting for its response settles, by resolving or by rejecting,     *)
(* even when the server keeps answering 401 after successful refreshes.        *)
RequestTerminates ==
    (call.pc = "fetching") ~> (call.pc \in Settled)

====
